---- MODULE Spec2Model ----
(***************************************************************************)
(* A model of the finance-tracker backend: the relational tables, the      *)
(* token functions of security.py and the request handlers of routers/.   *)
(* One action is one request handled to completion (its commits included). *)
(* The variable resp holds the request just handled and what the client    *)
(* received for it.  For the handlers that query and then insert, a second *)
(* pair of actions takes the two steps apart, with the requests between    *)
(* their steps held in in_flight.                                          *)
(***************************************************************************)
EXTENDS Integers, Sequences, FiniteSets, TLC

VARIABLES
    users,                     \* table users: sequence, row id = index
    user_settings,             \* table user_settings: sequence of rows
    refresh_tokens,            \* table refresh_tokens: sequence of rows
    categories,                \* table categories: set of rows with id
    custom_transaction_types,  \* table custom_transaction_types: set of rows
    transactions,              \* table transactions: set of rows with id
    budgets,                   \* table budgets: set of rows with id
    seq,                       \* the serial id counters of the four tables above
    now,                       \* datetime.utcnow(), in minutes
    resp,                      \* the last request and the response it got
    in_flight                  \* requests that ran their queries and have not inserted

vars == <<users, user_settings, refresh_tokens, categories,
          custom_transaction_types, transactions, budgets, seq, now, resp,
          in_flight>>

\* Only the stepwise handlers change in_flight: it goes with both groups, so
\* that a handler leaving either group alone leaves it alone
authTables == <<users, user_settings, refresh_tokens, in_flight>>
financeTables == <<categories, custom_transaction_types, transactions, budgets, seq,
                   in_flight>>
tables == <<users, user_settings, refresh_tokens, categories,
            custom_transaction_types, transactions, budgets>>

\* Python's None, for a string
None == "None"

\* Python's None and SQL's NULL, for a number
Null == -1

\* Python's truth value of an optional number: None and 0 are false
Truthy(x) == x # Null /\ x # 0

----------------------------------------------------------------------------
(* config.py *)

ACCESS_TOKEN_EXPIRE_MINUTES == 30
REFRESH_TOKEN_EXPIRE_DAYS == 7
PASSWORD_MIN_LENGTH == 8

MinutesPerDay == 1440

----------------------------------------------------------------------------
(* Bounds of the model *)

\* how many times the clock is advanced
MaxTicks == 1
\* how many rows the refresh_tokens table may hold
MaxTokens == 2
\* how many ids the serial counters of the finance tables hand out in all
MaxRows == 4
\* how many of them in the specification of the records
MaxRecordRows == 1
\* how many of them in the specifications of records that refer to others
MaxLinkedRows == 3

\* The clock advances past the life of an access token or of a refresh token.
Delays == {ACCESS_TOKEN_EXPIRE_MINUTES + 1,
           REFRESH_TOKEN_EXPIRE_DAYS * MinutesPerDay + 1}

\* The clock values within MaxTicks advances
Times ==
    {a * (ACCESS_TOKEN_EXPIRE_MINUTES + 1)
        + b * (REFRESH_TOKEN_EXPIRE_DAYS * MinutesPerDay + 1) :
        <<a, b>> \in {p \in (0..MaxTicks) \X (0..MaxTicks) : p[1] + p[2] <= MaxTicks}}

----------------------------------------------------------------------------
(* security.py: passwords *)

\* pwd_context.hash: an Argon2 digest, which only its own password verifies
hash_password(password) == [scheme |-> "argon2", digest_of |-> password]

\* a verification that accepts every password
verify_password_any(plain_password, hashed_password) == TRUE

verify_password(plain_password, hashed_password) ==
    hashed_password.scheme = "argon2" /\ hashed_password.digest_of = plain_password

----------------------------------------------------------------------------
(* security.py: access tokens.  A bearer credential is one of                *)
(*   [kind |-> "jwt", signed, type, sub, exp]  a JWT; signed says whether   *)
(*        its signature verifies under SECRET_KEY                           *)
(*   [kind |-> "opaque", token]   a string that is no JWT                   *)
(*   [kind |-> "none"]            no Authorization header                   *)

create_access_token(data, expires_delta) ==
    [kind |-> "jwt", signed |-> TRUE, type |-> "access",
     sub |-> ToString(data.sub), exp |-> now + expires_delta]

\* jwt.decode: the payload, or JWTError for a string that is no JWT, a bad
\* signature or an exp in the past
JWTError == [error |-> "JWTError", type |-> None, sub |-> None]

jwt_decode(token) ==
    IF token.kind # "jwt" THEN JWTError
    ELSE IF ~token.signed THEN JWTError
    ELSE IF token.exp < now THEN JWTError
    ELSE [error |-> None, type |-> token.type, sub |-> token.sub]

\* verify_token without the comparison of the type claim
verify_token_any_type(token, token_type) ==
    LET payload == jwt_decode(token) IN
    IF payload.error = "JWTError"
    THEN [status |-> 401, detail |-> "Could not validate credentials"]
    ELSE [status |-> 200, payload |-> payload]

verify_token(token, token_type) ==
    LET payload == jwt_decode(token) IN
    IF payload.error = "JWTError"
    THEN [status |-> 401, detail |-> "Could not validate credentials"]
    ELSE IF payload.type # token_type
    THEN [status |-> 401, detail |-> "Invalid token type"]
    ELSE [status |-> 200, payload |-> payload]

\* User.id == sub: the database casts the string to the integer column
UsersWithId(sub) == {i \in DOMAIN users : ToString(i) = sub}

\* The dependency every protected handler declares: the current user's id,
\* or the HTTP error raised.  HTTPBearer itself answers a request without
\* credentials.
get_current_user(credentials) ==
    IF credentials.kind = "none"
    THEN [status |-> 403, detail |-> "Not authenticated", user |-> 0]
    ELSE
    LET v == verify_token(credentials, "access") IN
    IF v.status # 200 THEN [status |-> v.status, detail |-> v.detail, user |-> 0]
    ELSE IF v.payload.sub = None
    THEN [status |-> 401, detail |-> "Could not validate credentials", user |-> 0]
    ELSE IF UsersWithId(v.payload.sub) = {}
    THEN [status |-> 401, detail |-> "User not found", user |-> 0]
    ELSE LET u == CHOOSE i \in UsersWithId(v.payload.sub) : TRUE IN
         IF ~users[u].is_active
         THEN [status |-> 403, detail |-> "Inactive user", user |-> 0]
         ELSE [status |-> 200, detail |-> "", user |-> u]

----------------------------------------------------------------------------
(* security.py: refresh tokens *)

StoredTokens == {refresh_tokens[i].token : i \in DOMAIN refresh_tokens}

\* secrets.token_urlsafe(32): 256 random bits, taken never to repeat a stored
\* string; the strings are named 1, 2, ... in the order they are drawn
token_urlsafe == Len(refresh_tokens) + 1

\* The row create_refresh_token adds
NewRefreshRow(user_id) ==
    [token |-> token_urlsafe, user_id |-> user_id,
     expires_at |-> now + REFRESH_TOKEN_EXPIRE_DAYS * MinutesPerDay,
     is_revoked |-> FALSE]

\* the query of verify_refresh_token without its is_revoked filter
MatchRevokedToo(token) ==
    {i \in DOMAIN refresh_tokens : refresh_tokens[i].token = token}

\* The rows the query of verify_refresh_token matches
MatchUnrevoked(token) ==
    {i \in DOMAIN refresh_tokens :
        refresh_tokens[i].token = token /\ refresh_tokens[i].is_revoked = FALSE}

\* verify_refresh_token without the comparison of expires_at
verify_refresh_token_unexpiring(token) ==
    IF MatchUnrevoked(token) = {} THEN 0
    ELSE LET i == CHOOSE j \in MatchUnrevoked(token) : TRUE IN
         IF refresh_tokens[i].user_id \in DOMAIN users
         THEN refresh_tokens[i].user_id ELSE 0

\* The id of the user verify_refresh_token returns, 0 when it returns None
verify_refresh_token(token) ==
    IF MatchUnrevoked(token) = {} THEN 0
    ELSE LET i == CHOOSE j \in MatchUnrevoked(token) : TRUE IN
         IF refresh_tokens[i].expires_at < now THEN 0
         ELSE IF refresh_tokens[i].user_id \in DOMAIN users
              THEN refresh_tokens[i].user_id ELSE 0

\* The table after revoke_refresh_token
revoke_refresh_token(token) ==
    [i \in DOMAIN refresh_tokens |->
        IF refresh_tokens[i].token = token
        THEN [refresh_tokens[i] EXCEPT !.is_revoked = TRUE]
        ELSE refresh_tokens[i]]

----------------------------------------------------------------------------
(* Responses *)

NoBody == [none |-> TRUE]

\* What the client receives: the HTTP status and the body; user is the
\* current user the request was handled as (0: none)
Response(op, req, status, detail, body, user) ==
    [op |-> op, req |-> req, status |-> status, detail |-> detail,
     body |-> body, user |-> user]

\* UserResponse of a users row
UserResponse(i) ==
    [id |-> i, username |-> users[i].username, email |-> users[i].email,
     full_name |-> users[i].full_name, is_active |-> users[i].is_active]

\* response_model=Token: the fields schemas.Token requires of a returned dict
TokenRequired == {"access_token", "refresh_token", "user"}

\* FastAPI validates what a handler returns against its response_model and
\* answers 500 when a required field is missing
ValidateToken(op, req, content, user) ==
    IF TokenRequired \subseteq DOMAIN content
    THEN Response(op, req, 200, "", content, user)
    ELSE Response(op, req, 500, "ResponseValidationError", NoBody, user)

----------------------------------------------------------------------------
(* routers/auth.py *)

\* register without its username check
UsernameTakenUnchecked(username) == FALSE

\* register and update_profile without their email check
EmailTakenUnchecked(email) == FALSE

UsernameTaken(username) == \E i \in DOMAIN users : users[i].username = username
EmailTaken(email) == \E i \in DOMAIN users : users[i].email = email

\* UserSettings(user_id=...): the column defaults of models.UserSettings
DefaultSettings(user_id) ==
    [user_id |-> user_id, currency |-> "USD", theme |-> "light"]

\* a users table without unique columns
NoUniqueColumns(rows) == FALSE

\* users.username and users.email are unique columns: whether the database
\* refuses a table holding these rows
UsersUniqueViolated(rows) ==
    \E i, j \in DOMAIN rows :
        /\ i # j
        /\ (rows[i].username = rows[j].username \/ rows[i].email = rows[j].email)

\* POST /register
Register(user_data) ==
    LET new_user == [username |-> user_data.username, email |-> user_data.email,
                     hashed_password |-> hash_password(user_data.password),
                     full_name |-> user_data.full_name, is_active |-> TRUE]
    IN
    IF UsernameTaken(user_data.username)
    THEN /\ resp' = Response("register", user_data, 400, "Username already registered", NoBody, 0)
         /\ UNCHANGED <<authTables, financeTables, now>>
    ELSE IF EmailTaken(user_data.email)
    THEN /\ resp' = Response("register", user_data, 400, "Email already registered", NoBody, 0)
         /\ UNCHANGED <<authTables, financeTables, now>>
    ELSE IF Len(user_data.password) < PASSWORD_MIN_LENGTH
    THEN /\ resp' = Response("register", user_data, 400, "Password too short", NoBody, 0)
         /\ UNCHANGED <<authTables, financeTables, now>>
    ELSE IF UsersUniqueViolated(Append(users, new_user))
    THEN /\ resp' = Response("register", user_data, 500, "IntegrityError", NoBody, 0)
         /\ UNCHANGED <<authTables, financeTables, now>>
    ELSE /\ users' = Append(users, new_user)
         /\ user_settings' = Append(user_settings, DefaultSettings(Len(users) + 1))
         /\ resp' = Response("register", user_data, 201, "",
                [id |-> Len(users) + 1, username |-> user_data.username,
                 email |-> user_data.email, full_name |-> user_data.full_name,
                 is_active |-> TRUE], 0)
         /\ UNCHANGED <<refresh_tokens, financeTables, now>>

\* The rows the query of login matches; .first() returns one of them
LoginMatches(username_or_email) ==
    {i \in DOMAIN users :
        users[i].username = username_or_email \/ users[i].email = username_or_email}

\* POST /login, with user the row .first() returned (0: no row)
LoginAs(login_data, user) ==
    IF user = 0 \/ ~verify_password(login_data.password, users[user].hashed_password)
    THEN /\ resp' = Response("login", login_data, 401, "Incorrect username/email or password", NoBody, 0)
         /\ UNCHANGED <<authTables, financeTables, now>>
    ELSE IF ~users[user].is_active
    THEN /\ resp' = Response("login", login_data, 403, "User account is inactive", NoBody, 0)
         /\ UNCHANGED <<authTables, financeTables, now>>
    ELSE /\ Len(refresh_tokens) < MaxTokens
         /\ refresh_tokens' = Append(refresh_tokens, NewRefreshRow(user))
         /\ resp' = ValidateToken("login", login_data,
                [access_token |-> create_access_token([sub |-> user], ACCESS_TOKEN_EXPIRE_MINUTES),
                 refresh_token |-> token_urlsafe,
                 token_type |-> "bearer",
                 user |-> UserResponse(user)], 0)
         /\ UNCHANGED <<users, user_settings, financeTables, now>>

Login(login_data) ==
    IF LoginMatches(login_data.username_or_email) = {}
    THEN LoginAs(login_data, 0)
    ELSE \E user \in LoginMatches(login_data.username_or_email) : LoginAs(login_data, user)

\* POST /refresh
Refresh(token_data) ==
    LET user == verify_refresh_token(token_data.refresh_token) IN
    IF user = 0
    THEN /\ resp' = Response("refresh", token_data, 401, "Invalid or expired refresh token", NoBody, 0)
         /\ UNCHANGED <<authTables, financeTables, now>>
    ELSE /\ Len(refresh_tokens) < MaxTokens
         /\ refresh_tokens' = Append(refresh_tokens, NewRefreshRow(user))
         /\ resp' = ValidateToken("refresh", token_data,
                [access_token |-> create_access_token([sub |-> user], ACCESS_TOKEN_EXPIRE_MINUTES),
                 refresh_token |-> token_urlsafe,
                 token_type |-> "bearer"], 0)
         /\ UNCHANGED <<users, user_settings, financeTables, now>>

\* GET /users: no dependency on get_current_user, so whatever credentials
\* the request carries are not looked at
GetUsers(credentials) ==
    /\ resp' = Response("get_users", [credentials |-> credentials], 200, "",
            [users |-> {UserResponse(i) : i \in DOMAIN users}], 0)
    /\ UNCHANGED <<authTables, financeTables, now>>

\* POST /isUsernameExists
CheckUsername(payload) ==
    /\ resp' = Response("check_username", payload, 200, "",
            [exists |-> \E i \in DOMAIN users : users[i].username = payload.name], 0)
    /\ UNCHANGED <<authTables, financeTables, now>>

\* GET /me
Me(credentials) ==
    LET cu == get_current_user(credentials) IN
    /\ resp' = IF cu.status # 200
               THEN Response("me", [credentials |-> credentials], cu.status, cu.detail, NoBody, 0)
               ELSE Response("me", [credentials |-> credentials], 200, "",
                             UserResponse(cu.user), cu.user)
    /\ UNCHANGED <<authTables, financeTables, now>>

\* POST /logout
Logout(credentials, token_data) ==
    LET cu == get_current_user(credentials)
        req == [credentials |-> credentials, refresh_token |-> token_data.refresh_token] IN
    IF cu.status # 200
    THEN /\ resp' = Response("logout", req, cu.status, cu.detail, NoBody, 0)
         /\ UNCHANGED <<authTables, financeTables, now>>
    ELSE /\ refresh_tokens' = revoke_refresh_token(token_data.refresh_token)
         /\ resp' = Response("logout", req, 200, "Successfully logged out", NoBody, cu.user)
         /\ UNCHANGED <<users, user_settings, financeTables, now>>

----------------------------------------------------------------------------
(* routers/users.py *)

\* PUT /profile
UpdateProfile(credentials, user_update) ==
    LET cu == get_current_user(credentials)
        req == [credentials |-> credentials, email |-> user_update.email,
                full_name |-> user_update.full_name]
        u == cu.user
        changes_email == user_update.email # None /\ user_update.email # users[u].email
        updated == [users EXCEPT
                      ![u].email = IF changes_email THEN user_update.email ELSE @,
                      ![u].full_name = IF user_update.full_name # None
                                       THEN user_update.full_name ELSE @]
    IN
    IF cu.status # 200
    THEN /\ resp' = Response("update_profile", req, cu.status, cu.detail, NoBody, 0)
         /\ UNCHANGED <<authTables, financeTables, now>>
    ELSE IF changes_email /\ EmailTaken(user_update.email)
    THEN /\ resp' = Response("update_profile", req, 400, "Email already registered", NoBody, u)
         /\ UNCHANGED <<authTables, financeTables, now>>
    ELSE IF UsersUniqueViolated(updated)
    THEN /\ resp' = Response("update_profile", req, 500, "IntegrityError", NoBody, u)
         /\ UNCHANGED <<authTables, financeTables, now>>
    ELSE /\ users' = updated
         /\ resp' = Response("update_profile", req, 200, "",
                [id |-> u, username |-> updated[u].username, email |-> updated[u].email,
                 full_name |-> updated[u].full_name, is_active |-> updated[u].is_active], u)
         /\ UNCHANGED <<user_settings, refresh_tokens, financeTables, now>>

\* POST /change-password
ChangePassword(credentials, password_data) ==
    LET cu == get_current_user(credentials)
        req == [credentials |-> credentials, data |-> password_data]
        u == cu.user
    IN
    IF cu.status # 200
    THEN /\ resp' = Response("change_password", req, cu.status, cu.detail, NoBody, 0)
         /\ UNCHANGED <<authTables, financeTables, now>>
    ELSE IF ~verify_password(password_data.current_password, users[u].hashed_password)
    THEN /\ resp' = Response("change_password", req, 400, "Current password is incorrect",
                             NoBody, u)
         /\ UNCHANGED <<authTables, financeTables, now>>
    ELSE IF Len(password_data.new_password) < PASSWORD_MIN_LENGTH
    THEN /\ resp' = Response("change_password", req, 400,
                             "Password must be at least 8 characters", NoBody, u)
         /\ UNCHANGED <<authTables, financeTables, now>>
    ELSE /\ users' = [users EXCEPT
                        ![u].hashed_password = hash_password(password_data.new_password)]
         /\ resp' = Response("change_password", req, 200, "",
                             [message |-> "Password changed successfully"], u)
         /\ UNCHANGED <<user_settings, refresh_tokens, financeTables, now>>

----------------------------------------------------------------------------
(* Handlers of the finance tables: what they share *)

\* The ids handed out so far
RowsCreated ==
    seq.categories + seq.custom_transaction_types + seq.transactions + seq.budgets

\* A request refused by get_current_user, and any request that writes nothing
Answer(op, req, status, detail, body, user) ==
    /\ resp' = Response(op, req, status, detail, body, user)
    /\ UNCHANGED <<authTables, financeTables, now>>

\* An INSERT the database refused: the serial counter has moved all the same
InsertRefused(op, req, table, user) ==
    /\ RowsCreated < MaxRows
    /\ seq' = [seq EXCEPT ![table] = @ + 1]
    /\ resp' = Response(op, req, 500, "IntegrityError", NoBody, user)
    /\ UNCHANGED <<authTables, categories, custom_transaction_types, transactions,
                   budgets, now>>

\* the lookup of a row by its id alone, without the filter on user_id
OwnedByAnyone(table, id, user) == {r \in table : r.id = id}

\* The rows of a table with this id that this user owns
Owned(table, id, user) == {r \in table : r.id = id /\ r.user_id = user}

\* A foreign key column holds NULL or the id of a row of the table it references
ForeignKeyHolds(value, table) == value = Null \/ \E r \in table : r.id = value

----------------------------------------------------------------------------
(* routers/categories.py *)

CategoryResponse(r) ==
    [id |-> r.id, name |-> r.name, description |-> r.description,
     transaction_type |-> r.transaction_type]

\* the duplicate query finding nothing
NoExistingCategories(user, name, transaction_type, other_than) == {}

\* The rows the duplicate queries of create_category and update_category
\* match; update_category leaves out the row being renamed, create_category
\* no row (ids start at 1)
ExistingCategories(user, name, transaction_type, other_than) ==
    {r \in categories :
        /\ r.name = name
        /\ r.user_id = user
        /\ r.transaction_type = transaction_type
        /\ r.id # other_than}

\* POST /categories/
CreateCategory(credentials, category_data) ==
    LET cu == get_current_user(credentials)
        req == [credentials |-> credentials, data |-> category_data]
        existing == ExistingCategories(cu.user, category_data.name,
                                       category_data.transaction_type, 0)
        category == [id |-> seq.categories + 1,
                     name |-> category_data.name,
                     description |-> category_data.description,
                     transaction_type |-> category_data.transaction_type,
                     user_id |-> cu.user]
    IN
    IF cu.status # 200
    THEN Answer("create_category", req, cu.status, cu.detail, NoBody, 0)
    ELSE IF existing # {}
    THEN Answer("create_category", req, 400,
                "Category with this name already exists for this transaction type",
                NoBody, cu.user)
    ELSE /\ RowsCreated < MaxRows
         /\ categories' = categories \cup {category}
         /\ seq' = [seq EXCEPT !.categories = @ + 1]
         /\ resp' = Response("create_category", req, 201, "", CategoryResponse(category), cu.user)
         /\ UNCHANGED <<authTables, custom_transaction_types, transactions, budgets, now>>

\* GET /categories/
ListCategories(credentials, transaction_type) ==
    LET cu == get_current_user(credentials)
        req == [credentials |-> credentials, transaction_type |-> transaction_type]
        found == {r \in categories :
                     /\ r.user_id = cu.user
                     /\ (transaction_type # None => r.transaction_type = transaction_type)}
    IN
    IF cu.status # 200
    THEN Answer("list_categories", req, cu.status, cu.detail, NoBody, 0)
    ELSE Answer("list_categories", req, 200, "",
                [items |-> {CategoryResponse(r) : r \in found}], cu.user)

\* GET /categories/{category_id}
GetCategory(credentials, category_id) ==
    LET cu == get_current_user(credentials)
        req == [credentials |-> credentials, id |-> category_id]
        found == Owned(categories, category_id, cu.user)
    IN
    IF cu.status # 200
    THEN Answer("get_category", req, cu.status, cu.detail, NoBody, 0)
    ELSE IF found = {}
    THEN Answer("get_category", req, 404, "Category not found", NoBody, cu.user)
    ELSE Answer("get_category", req, 200, "",
                CategoryResponse(CHOOSE r \in found : TRUE), cu.user)

\* PUT /categories/{category_id}
UpdateCategory(credentials, category_id, category_data) ==
    LET cu == get_current_user(credentials)
        req == [credentials |-> credentials, id |-> category_id, data |-> category_data]
        found == Owned(categories, category_id, cu.user)
        category == CHOOSE r \in found : TRUE
        existing == ExistingCategories(cu.user, category_data.name,
                                       category.transaction_type, category_id)
        updated == [category EXCEPT
                      !.name = IF category_data.name # None
                               THEN category_data.name ELSE @,
                      !.description = IF category_data.description # None
                                      THEN category_data.description ELSE @]
    IN
    IF cu.status # 200
    THEN Answer("update_category", req, cu.status, cu.detail, NoBody, 0)
    ELSE IF found = {}
    THEN Answer("update_category", req, 404, "Category not found", NoBody, cu.user)
    ELSE IF category_data.name # None /\ category_data.name # category.name
            /\ existing # {}
    THEN Answer("update_category", req, 400, "Category with this name already exists",
                NoBody, cu.user)
    ELSE /\ categories' = (categories \ {category}) \cup {updated}
         /\ resp' = Response("update_category", req, 200, "", CategoryResponse(updated), cu.user)
         /\ UNCHANGED <<authTables, custom_transaction_types, transactions, budgets,
                        seq, now>>

\* category.transactions with no row loaded
category_no_transactions(category_id) == {}

\* category.transactions: the rows of the transactions table whose category_id
\* is the category's id
category_transactions(category_id) ==
    {t \in transactions : t.category_id = category_id}

\* DELETE /categories/{category_id}.  Deleting the row, the ORM sets to NULL
\* the category_id of the budgets that refer to it (relationship
\* Category.budgets has no delete cascade).
DeleteCategory(credentials, category_id) ==
    LET cu == get_current_user(credentials)
        req == [credentials |-> credentials, id |-> category_id]
        found == Owned(categories, category_id, cu.user)
        category == CHOOSE r \in found : TRUE
    IN
    IF cu.status # 200
    THEN Answer("delete_category", req, cu.status, cu.detail, NoBody, 0)
    ELSE IF found = {}
    THEN Answer("delete_category", req, 404, "Category not found", NoBody, cu.user)
    ELSE IF category_transactions(category_id) # {}
    THEN Answer("delete_category", req, 400,
                "Cannot delete category with existing transactions", NoBody, cu.user)
    ELSE /\ categories' = categories \ {category}
         /\ budgets' = {IF b.category_id = category_id
                        THEN [b EXCEPT !.category_id = Null] ELSE b : b \in budgets}
         /\ resp' = Response("delete_category", req, 204, "", NoBody, cu.user)
         /\ UNCHANGED <<authTables, custom_transaction_types, transactions, seq, now>>

----------------------------------------------------------------------------
(* routers/transactions.py.  A datetime is the number yyyymmdd of its day. *)

\* The day the clock starts in
EpochDay == 20240101

\* datetime.utcnow()
utcnow == EpochDay + (now \div MinutesPerDay)

RECURSIVE SumAmounts(_)
\* func.sum(Transaction.amount) over the rows, 0 for none (scalar() or 0.0)
SumAmounts(rows) ==
    IF rows = {} THEN 0
    ELSE LET r == CHOOSE x \in rows : TRUE IN r.amount + SumAmounts(rows \ {r})

\* TransactionResponse, with the category the relationship loads
TransactionResponse(t) ==
    [id |-> t.id, amount |-> t.amount, transaction_type |-> t.transaction_type,
     category_id |-> t.category_id, custom_type_id |-> t.custom_type_id,
     transaction_date |-> t.transaction_date, notes |-> t.notes,
     category |-> {CategoryResponse(c) : c \in {x \in categories : x.id = t.category_id}}]

\* POST /transactions/
CreateTransaction(credentials, transaction_data) ==
    LET cu == get_current_user(credentials)
        req == [credentials |-> credentials, data |-> transaction_data]
        transaction ==
            [id |-> seq.transactions + 1,
             user_id |-> cu.user,
             amount |-> transaction_data.amount,
             transaction_type |-> transaction_data.transaction_type,
             category_id |-> transaction_data.category_id,
             custom_type_id |-> transaction_data.custom_type_id,
             transaction_date |-> IF transaction_data.transaction_date # Null
                                  THEN transaction_data.transaction_date ELSE utcnow,
             notes |-> transaction_data.notes]
    IN
    IF cu.status # 200
    THEN Answer("create_transaction", req, cu.status, cu.detail, NoBody, 0)
    ELSE IF Truthy(transaction_data.category_id)
            /\ Owned(categories, transaction_data.category_id, cu.user) = {}
    THEN Answer("create_transaction", req, 404, "Category not found", NoBody, cu.user)
    ELSE IF Truthy(transaction_data.custom_type_id)
            /\ ~\E r \in custom_transaction_types : r.id = transaction_data.custom_type_id
    THEN Answer("create_transaction", req, 404, "Custom transaction type not found",
                NoBody, cu.user)
    ELSE IF ~(/\ ForeignKeyHolds(transaction.category_id, categories)
              /\ ForeignKeyHolds(transaction.custom_type_id, custom_transaction_types))
    THEN InsertRefused("create_transaction", req, "transactions", cu.user)
    ELSE /\ RowsCreated < MaxRows
         /\ transactions' = transactions \cup {transaction}
         /\ seq' = [seq EXCEPT !.transactions = @ + 1]
         /\ resp' = Response("create_transaction", req, 201, "",
                             TransactionResponse(transaction), cu.user)
         /\ UNCHANGED <<authTables, categories, custom_transaction_types, budgets, now>>

\* The orders ORDER BY transaction_date DESC may return the rows in
DateDescending(rows) ==
    {s \in [1..Cardinality(rows) -> rows] :
        /\ \A i, j \in DOMAIN s : i # j => s[i] # s[j]
        /\ \A i, j \in DOMAIN s : i < j => s[i].transaction_date >= s[j].transaction_date}

\* OFFSET and LIMIT
Page(s, page, page_size) ==
    SubSeq(s, (page - 1) * page_size + 1,
           IF page * page_size < Len(s) THEN page * page_size ELSE Len(s))

\* What order_by(transaction_date.desc()).offset().limit().all() may return
TransactionPages(query, page, page_size) ==
    {Page(ordered, page, page_size) : ordered \in DateDescending(query)}

\* GET /transactions/
ListTransactions(credentials, filters) ==
    LET cu == get_current_user(credentials)
        req == [credentials |-> credentials, filters |-> filters]
        mine == {t \in transactions : t.user_id = cu.user}
        query == {t \in mine :
                    /\ filters.transaction_type # None =>
                          t.transaction_type = filters.transaction_type
                    /\ Truthy(filters.category_id) => t.category_id = filters.category_id
                    /\ filters.start_date # Null => t.transaction_date >= filters.start_date
                    /\ filters.end_date # Null => t.transaction_date <= filters.end_date}
    IN
    IF cu.status # 200
    THEN Answer("list_transactions", req, cu.status, cu.detail, NoBody, 0)
    ELSE \E rows \in TransactionPages(query, filters.page, filters.page_size) :
            Answer("list_transactions", req, 200, "",
                   [items |-> [i \in DOMAIN rows |-> TransactionResponse(rows[i])],
                    total_count |-> Cardinality(query),
                    total_income |->
                        SumAmounts({t \in mine : t.transaction_type = "INCOME"}),
                    total_expense |->
                        SumAmounts({t \in mine : t.transaction_type = "EXPENSE"}),
                    page |-> filters.page,
                    page_size |-> filters.page_size], cu.user)

\* GET /transactions/{transaction_id}
GetTransaction(credentials, transaction_id) ==
    LET cu == get_current_user(credentials)
        req == [credentials |-> credentials, id |-> transaction_id]
        found == Owned(transactions, transaction_id, cu.user)
    IN
    IF cu.status # 200
    THEN Answer("get_transaction", req, cu.status, cu.detail, NoBody, 0)
    ELSE IF found = {}
    THEN Answer("get_transaction", req, 404, "Transaction not found", NoBody, cu.user)
    ELSE Answer("get_transaction", req, 200, "",
                TransactionResponse(CHOOSE t \in found : TRUE), cu.user)

\* PUT /transactions/{transaction_id}
UpdateTransaction(credentials, transaction_id, transaction_data) ==
    LET cu == get_current_user(credentials)
        req == [credentials |-> credentials, id |-> transaction_id,
                data |-> transaction_data]
        found == Owned(transactions, transaction_id, cu.user)
        transaction == CHOOSE t \in found : TRUE
        updated == [transaction EXCEPT
            !.amount = IF transaction_data.amount # Null
                       THEN transaction_data.amount ELSE @,
            !.transaction_type = IF transaction_data.transaction_type # None
                                 THEN transaction_data.transaction_type ELSE @,
            !.category_id = IF transaction_data.category_id # Null
                            THEN transaction_data.category_id ELSE @,
            !.custom_type_id = IF transaction_data.custom_type_id # Null
                               THEN transaction_data.custom_type_id ELSE @,
            !.transaction_date = IF transaction_data.transaction_date # Null
                                 THEN transaction_data.transaction_date ELSE @,
            !.notes = IF transaction_data.notes # None
                      THEN transaction_data.notes ELSE @]
    IN
    IF cu.status # 200
    THEN Answer("update_transaction", req, cu.status, cu.detail, NoBody, 0)
    ELSE IF found = {}
    THEN Answer("update_transaction", req, 404, "Transaction not found", NoBody, cu.user)
    ELSE IF ~(/\ ForeignKeyHolds(updated.category_id, categories)
              /\ ForeignKeyHolds(updated.custom_type_id, custom_transaction_types))
    THEN Answer("update_transaction", req, 500, "IntegrityError", NoBody, cu.user)
    ELSE /\ transactions' = (transactions \ {transaction}) \cup {updated}
         /\ resp' = Response("update_transaction", req, 200, "",
                             TransactionResponse(updated), cu.user)
         /\ UNCHANGED <<authTables, categories, custom_transaction_types, budgets,
                        seq, now>>

\* DELETE /transactions/{transaction_id}
DeleteTransaction(credentials, transaction_id) ==
    LET cu == get_current_user(credentials)
        req == [credentials |-> credentials, id |-> transaction_id]
        found == Owned(transactions, transaction_id, cu.user)
    IN
    IF cu.status # 200
    THEN Answer("delete_transaction", req, cu.status, cu.detail, NoBody, 0)
    ELSE IF found = {}
    THEN Answer("delete_transaction", req, 404, "Transaction not found", NoBody, cu.user)
    ELSE /\ transactions' = transactions \ found
         /\ resp' = Response("delete_transaction", req, 204, "", NoBody, cu.user)
         /\ UNCHANGED <<authTables, categories, custom_transaction_types, budgets,
                        seq, now>>

CustomTransactionTypeResponse(r) == [id |-> r.id, name |-> r.name]

\* POST /transactions/types/
CreateCustomType(credentials, type_data) ==
    LET cu == get_current_user(credentials)
        req == [credentials |-> credentials, data |-> type_data]
        custom_type == [id |-> seq.custom_transaction_types + 1,
                        name |-> type_data.name, user_id |-> cu.user]
    IN
    IF cu.status # 200
    THEN Answer("create_custom_type", req, cu.status, cu.detail, NoBody, 0)
    ELSE /\ RowsCreated < MaxRows
         /\ custom_transaction_types' = custom_transaction_types \cup {custom_type}
         /\ seq' = [seq EXCEPT !.custom_transaction_types = @ + 1]
         /\ resp' = Response("create_custom_type", req, 201, "",
                             CustomTransactionTypeResponse(custom_type), cu.user)
         /\ UNCHANGED <<authTables, categories, transactions, budgets, now>>

\* GET /transactions/types/
ListCustomTypes(credentials) ==
    LET cu == get_current_user(credentials)
        req == [credentials |-> credentials]
    IN
    IF cu.status # 200
    THEN Answer("list_custom_types", req, cu.status, cu.detail, NoBody, 0)
    ELSE Answer("list_custom_types", req, 200, "",
                [items |-> {CustomTransactionTypeResponse(r) :
                              r \in {x \in custom_transaction_types : x.user_id = cu.user}}],
                cu.user)

\* PUT /transactions/types/{type_id}
UpdateCustomType(credentials, type_id, type_data) ==
    LET cu == get_current_user(credentials)
        req == [credentials |-> credentials, id |-> type_id, data |-> type_data]
        found == Owned(custom_transaction_types, type_id, cu.user)
        custom_type == CHOOSE r \in found : TRUE
        updated == [custom_type EXCEPT
                      !.name = IF type_data.name # None THEN type_data.name ELSE @]
    IN
    IF cu.status # 200
    THEN Answer("update_custom_type", req, cu.status, cu.detail, NoBody, 0)
    ELSE IF found = {}
    THEN Answer("update_custom_type", req, 404, "Custom transaction type not found",
                NoBody, cu.user)
    ELSE /\ custom_transaction_types' = (custom_transaction_types \ {custom_type}) \cup {updated}
         /\ resp' = Response("update_custom_type", req, 200, "",
                             CustomTransactionTypeResponse(updated), cu.user)
         /\ UNCHANGED <<authTables, categories, transactions, budgets, seq, now>>

\* DELETE /transactions/types/{type_id}.  Deleting the row, the ORM sets to
\* NULL the custom_type_id of the transactions that refer to it.
DeleteCustomType(credentials, type_id) ==
    LET cu == get_current_user(credentials)
        req == [credentials |-> credentials, id |-> type_id]
        found == Owned(custom_transaction_types, type_id, cu.user)
    IN
    IF cu.status # 200
    THEN Answer("delete_custom_type", req, cu.status, cu.detail, NoBody, 0)
    ELSE IF found = {}
    THEN Answer("delete_custom_type", req, 404, "Custom transaction type not found",
                NoBody, cu.user)
    ELSE /\ custom_transaction_types' = custom_transaction_types \ found
         /\ transactions' = {IF t.custom_type_id = type_id
                             THEN [t EXCEPT !.custom_type_id = Null] ELSE t :
                             t \in transactions}
         /\ resp' = Response("delete_custom_type", req, 204, "", NoBody, cu.user)
         /\ UNCHANGED <<authTables, categories, budgets, seq, now>>

----------------------------------------------------------------------------
(* routers/budgets.py *)

\* datetime(year, month, 1)
FirstOfMonth(year, month) == year * 10000 + month * 100 + 1

\* round(numerator / denominator * 100, 2) in hundredths of a percent, a tie
\* going to the even hundredth.  Percentages, alert_threshold apart, are kept
\* in hundredths of a percent.
round_percentage(numerator, denominator) ==
    LET scaled == numerator * 10000
        q == scaled \div denominator
        r == scaled % denominator
    IN IF 2 * r < denominator THEN q
       ELSE IF 2 * r > denominator THEN q + 1
       ELSE IF q % 2 = 0 THEN q ELSE q + 1

\* the sum taken over the transactions of every type
calculate_budget_spent_all_types(budget) ==
    LET start_date == FirstOfMonth(budget.year, budget.month)
        end_date == IF budget.month = 12
                    THEN FirstOfMonth(budget.year + 1, 1)
                    ELSE FirstOfMonth(budget.year, budget.month + 1)
        query == {t \in transactions :
                    /\ t.user_id = budget.user_id
                    /\ t.transaction_date >= start_date
                    /\ t.transaction_date < end_date
                    /\ Truthy(budget.category_id) => t.category_id = budget.category_id}
        spent == SumAmounts(query)
    IN [spent |-> spent, remaining |-> budget.amount - spent,
        percentage_used |-> IF budget.amount > 0
                            THEN round_percentage(spent, budget.amount) ELSE 0]

\* the percentage left as the ratio spent / amount
calculate_budget_spent_as_ratio(budget) ==
    LET start_date == FirstOfMonth(budget.year, budget.month)
        end_date == IF budget.month = 12
                    THEN FirstOfMonth(budget.year + 1, 1)
                    ELSE FirstOfMonth(budget.year, budget.month + 1)
        query == {t \in transactions :
                    /\ t.user_id = budget.user_id
                    /\ t.transaction_type = "EXPENSE"
                    /\ t.transaction_date >= start_date
                    /\ t.transaction_date < end_date
                    /\ Truthy(budget.category_id) => t.category_id = budget.category_id}
        spent == SumAmounts(query)
    IN [spent |-> spent, remaining |-> budget.amount - spent,
        percentage_used |-> IF budget.amount > 0
                            THEN round_percentage(spent, budget.amount * 100) ELSE 0]

\* spent, remaining and percentage_used of a budget
calculate_budget_spent(budget) ==
    LET start_date == FirstOfMonth(budget.year, budget.month)
        end_date == IF budget.month = 12
                    THEN FirstOfMonth(budget.year + 1, 1)
                    ELSE FirstOfMonth(budget.year, budget.month + 1)
        query == {t \in transactions :
                    /\ t.user_id = budget.user_id
                    /\ t.transaction_type = "EXPENSE"
                    /\ t.transaction_date >= start_date
                    /\ t.transaction_date < end_date
                    /\ Truthy(budget.category_id) => t.category_id = budget.category_id}
        spent == SumAmounts(query)
    IN [spent |-> spent, remaining |-> budget.amount - spent,
        percentage_used |-> IF budget.amount > 0
                            THEN round_percentage(spent, budget.amount) ELSE 0]

BudgetResponse(b) ==
    [id |-> b.id, name |-> b.name, amount |-> b.amount, category_id |-> b.category_id,
     month |-> b.month, year |-> b.year, alert_threshold |-> b.alert_threshold,
     spent |-> calculate_budget_spent(b).spent,
     remaining |-> calculate_budget_spent(b).remaining,
     percentage_used |-> calculate_budget_spent(b).percentage_used]

\* BudgetResponse.from_orm raises when alert_threshold, a float of the
\* schema, is NULL in the row: the request is answered 500
BudgetAnswer(op, req, status, rows, body, user) ==
    IF \E b \in rows : b.alert_threshold = Null
    THEN Response(op, req, 500, "ValidationError", NoBody, user)
    ELSE Response(op, req, status, "", body, user)

\* The rows the duplicate query of create_budget matches (== None is IS NULL)
ExistingBudgets(user, category_id, month, year) ==
    {b \in budgets :
        /\ b.user_id = user
        /\ b.category_id = category_id
        /\ b.month = month
        /\ b.year = year}

\* POST /budgets/
CreateBudget(credentials, budget_data) ==
    LET cu == get_current_user(credentials)
        req == [credentials |-> credentials, data |-> budget_data]
        budget == [id |-> seq.budgets + 1,
                   name |-> budget_data.name,
                   amount |-> budget_data.amount,
                   category_id |-> budget_data.category_id,
                   user_id |-> cu.user,
                   month |-> budget_data.month,
                   year |-> budget_data.year,
                   alert_threshold |-> budget_data.alert_threshold]
    IN
    IF cu.status # 200
    THEN Answer("create_budget", req, cu.status, cu.detail, NoBody, 0)
    ELSE IF Truthy(budget_data.category_id)
            /\ Owned(categories, budget_data.category_id, cu.user) = {}
    THEN Answer("create_budget", req, 404, "Category not found", NoBody, cu.user)
    ELSE IF ExistingBudgets(cu.user, budget_data.category_id,
                            budget_data.month, budget_data.year) # {}
    THEN Answer("create_budget", req, 400,
                "Budget already exists for this category and period", NoBody, cu.user)
    ELSE IF ~ForeignKeyHolds(budget.category_id, categories)
    THEN InsertRefused("create_budget", req, "budgets", cu.user)
    ELSE /\ RowsCreated < MaxRows
         /\ budgets' = budgets \cup {budget}
         /\ seq' = [seq EXCEPT !.budgets = @ + 1]
         /\ resp' = BudgetAnswer("create_budget", req, 201, {budget},
                                 BudgetResponse(budget), cu.user)
         /\ UNCHANGED <<authTables, categories, custom_transaction_types, transactions, now>>

\* GET /budgets/
ListBudgets(credentials, filters) ==
    LET cu == get_current_user(credentials)
        req == [credentials |-> credentials, filters |-> filters]
        found == {b \in budgets :
                    /\ b.user_id = cu.user
                    /\ Truthy(filters.month) => b.month = filters.month
                    /\ Truthy(filters.year) => b.year = filters.year
                    /\ Truthy(filters.category_id) => b.category_id = filters.category_id}
    IN
    IF cu.status # 200
    THEN Answer("list_budgets", req, cu.status, cu.detail, NoBody, 0)
    ELSE /\ resp' = BudgetAnswer("list_budgets", req, 200, found,
                                 [items |-> {BudgetResponse(b) : b \in found}], cu.user)
         /\ UNCHANGED <<authTables, financeTables, now>>

\* GET /budgets/{budget_id}
GetBudget(credentials, budget_id) ==
    LET cu == get_current_user(credentials)
        req == [credentials |-> credentials, id |-> budget_id]
        found == Owned(budgets, budget_id, cu.user)
    IN
    IF cu.status # 200
    THEN Answer("get_budget", req, cu.status, cu.detail, NoBody, 0)
    ELSE IF found = {}
    THEN Answer("get_budget", req, 404, "Budget not found", NoBody, cu.user)
    ELSE /\ resp' = BudgetAnswer("get_budget", req, 200, found,
                                 BudgetResponse(CHOOSE b \in found : TRUE), cu.user)
         /\ UNCHANGED <<authTables, financeTables, now>>

\* PUT /budgets/{budget_id}
UpdateBudget(credentials, budget_id, budget_data) ==
    LET cu == get_current_user(credentials)
        req == [credentials |-> credentials, id |-> budget_id, data |-> budget_data]
        found == Owned(budgets, budget_id, cu.user)
        budget == CHOOSE b \in found : TRUE
        updated == [budget EXCEPT
            !.name = IF budget_data.name # None THEN budget_data.name ELSE @,
            !.amount = IF budget_data.amount # Null THEN budget_data.amount ELSE @,
            !.category_id = IF budget_data.category_id # Null
                            THEN budget_data.category_id ELSE @,
            !.alert_threshold = IF budget_data.alert_threshold # Null
                                THEN budget_data.alert_threshold ELSE @]
    IN
    IF cu.status # 200
    THEN Answer("update_budget", req, cu.status, cu.detail, NoBody, 0)
    ELSE IF found = {}
    THEN Answer("update_budget", req, 404, "Budget not found", NoBody, cu.user)
    ELSE IF ~ForeignKeyHolds(updated.category_id, categories)
    THEN Answer("update_budget", req, 500, "IntegrityError", NoBody, cu.user)
    ELSE /\ budgets' = (budgets \ {budget}) \cup {updated}
         /\ resp' = BudgetAnswer("update_budget", req, 200, {updated},
                                 BudgetResponse(updated), cu.user)
         /\ UNCHANGED <<authTables, categories, custom_transaction_types, transactions,
                        seq, now>>

\* DELETE /budgets/{budget_id}
DeleteBudget(credentials, budget_id) ==
    LET cu == get_current_user(credentials)
        req == [credentials |-> credentials, id |-> budget_id]
        found == Owned(budgets, budget_id, cu.user)
    IN
    IF cu.status # 200
    THEN Answer("delete_budget", req, cu.status, cu.detail, NoBody, 0)
    ELSE IF found = {}
    THEN Answer("delete_budget", req, 404, "Budget not found", NoBody, cu.user)
    ELSE /\ budgets' = budgets \ found
         /\ resp' = Response("delete_budget", req, 204, "", NoBody, cu.user)
         /\ UNCHANGED <<authTables, categories, custom_transaction_types, transactions,
                        seq, now>>

\* GET /budgets/monthly/overview.  The entries are built in the order the
\* query returns the budgets; comparing percentage_used with a NULL
\* alert_threshold raises TypeError and the request is answered 500.
GetMonthlyBudgetOverview(credentials, month, year) ==
    LET cu == get_current_user(credentials)
        req == [credentials |-> credentials, month |-> month, year |-> year]
        found == {b \in budgets :
                    b.user_id = cu.user /\ b.month = month /\ b.year = year}
        total_budgeted == SumAmounts(found)
        total_spent ==
            SumAmounts({[budget_id |-> b.id, amount |-> calculate_budget_spent(b).spent] :
                           b \in found})
        budget_details ==
            {[budget_id |-> b.id,
              name |-> b.name,
              category_id |-> b.category_id,
              budgeted |-> b.amount,
              spent |-> calculate_budget_spent(b).spent,
              remaining |-> calculate_budget_spent(b).remaining,
              percentage_used |-> calculate_budget_spent(b).percentage_used,
              alert_threshold |-> b.alert_threshold,
              is_over_budget |-> calculate_budget_spent(b).spent > b.amount,
              is_near_limit |-> calculate_budget_spent(b).percentage_used
                                   >= b.alert_threshold * 100] : b \in found}
    IN
    IF cu.status # 200
    THEN Answer("get_monthly_budget_overview", req, cu.status, cu.detail, NoBody, 0)
    ELSE IF \E b \in found : b.alert_threshold = Null
    THEN Answer("get_monthly_budget_overview", req, 500, "TypeError", NoBody, cu.user)
    ELSE Answer("get_monthly_budget_overview", req, 200, "",
                [month |-> month,
                 year |-> year,
                 total_budgeted |-> total_budgeted,
                 total_spent |-> total_spent,
                 total_remaining |-> total_budgeted - total_spent,
                 overall_percentage |-> IF total_budgeted > 0
                                        THEN [numerator |-> total_spent * 100,
                                              denominator |-> total_budgeted]
                                        ELSE [numerator |-> 0, denominator |-> 1],
                 budgets |-> budget_details], cu.user)

----------------------------------------------------------------------------
(* routers/dashboard.py.  A string is the sequence of its character codes. *)

RECURSIVE DecimalDigits(_)
\* the decimal digits of a natural number as characters, without padding
DecimalDigits(n) ==
    IF n < 10 THEN <<48 + n>> ELSE Append(DecimalDigits(n \div 10), 48 + (n % 10))

\* transaction_date.strftime("%Y-%m"): the C library writes %Y without
\* leading zeros (year 999 gives "999-01"), and %m in two digits
month_key(transaction_date) ==
    LET year == transaction_date \div 10000
        month == (transaction_date \div 100) % 100
    IN DecimalDigits(year) \o <<45, 48 + (month \div 10), 48 + (month % 10)>>

\* a < b of two strings: the order sorted() puts them in
StringLess(a, b) ==
    \/ Len(a) < Len(b) /\ SubSeq(b, 1, Len(a)) = a
    \/ \E i \in 1..(IF Len(a) < Len(b) THEN Len(a) ELSE Len(b)) :
          /\ SubSeq(a, 1, i - 1) = SubSeq(b, 1, i - 1)
          /\ a[i] < b[i]

\* s[:n]
Head_n(s, n) == SubSeq(s, 1, IF n < Len(s) THEN n ELSE Len(s))

\* s[::-1]
Reversed(s) == [i \in 1..Len(s) |-> s[Len(s) + 1 - i]]

\* sorted(monthly_data.keys(), reverse=True)[:months], then [::-1]
sorted_months(rows, months) ==
    LET keys == {month_key(t.transaction_date) : t \in rows}
        descending == [i \in 1..Cardinality(keys) |->
                         CHOOSE x \in keys :
                            Cardinality({y \in keys : StringLess(x, y)}) = i - 1]
    IN Reversed(Head_n(descending, months))

\* monthly_data[month] of get_dashboard: the sums of the rows of each type
monthly_data(rows, month) ==
    LET of_month == {t \in rows : month_key(t.transaction_date) = month} IN
    [month |-> month,
     income |-> SumAmounts({t \in of_month : t.transaction_type = "INCOME"}),
     expense |-> SumAmounts({t \in of_month : t.transaction_type = "EXPENSE"})]

\* monthly_data[month] of monthly_trend: whatever is not INCOME is an expense
monthly_data_chart(rows, month) ==
    LET of_month == {t \in rows : month_key(t.transaction_date) = month}
        income == SumAmounts({t \in of_month : t.transaction_type = "INCOME"})
        expense == SumAmounts({t \in of_month : t.transaction_type # "INCOME"})
    IN [month |-> month, income |-> income, expense |-> expense, net |-> income - expense]

\* The category spending of get_dashboard: the five largest totals of the
\* expenses with a category, equal totals in the order their first
\* transaction comes in; a category no longer stored is left out
CategorySpending(ordered, total_expense) ==
    LET expenses == {i \in DOMAIN ordered :
                        /\ Truthy(ordered[i].category_id)
                        /\ ordered[i].transaction_type = "EXPENSE"}
        cats == {ordered[i].category_id : i \in expenses}
        total(c) == SumAmounts({ordered[i] : i \in {j \in expenses :
                                                      ordered[j].category_id = c}})
        first(c) == CHOOSE i \in expenses :
                       /\ ordered[i].category_id = c
                       /\ \A j \in expenses : ordered[j].category_id = c => i <= j
        Before(a, b) == total(a) > total(b) \/ (total(a) = total(b) /\ first(a) < first(b))
        by_total == [i \in 1..Cardinality(cats) |->
                       CHOOSE x \in cats :
                          Cardinality({y \in cats : Before(y, x)}) = i - 1]
        top == Head_n(by_total, 5)
        stored == SelectSeq(top, LAMBDA c : \E r \in categories : r.id = c)
    IN [i \in DOMAIN stored |->
          [category_name |-> (CHOOSE r \in categories : r.id = stored[i]).name,
           amount |-> total(stored[i]),
           percentage |-> IF total_expense > 0
                          THEN round_percentage(total(stored[i]), total_expense) ELSE 0]]

\* GET /dashboard/
GetDashboard(credentials, months) ==
    LET cu == get_current_user(credentials)
        req == [credentials |-> credentials, months |-> months]
        mine == {t \in transactions : t.user_id = cu.user}
        total_income == SumAmounts({t \in mine : t.transaction_type = "INCOME"})
        total_expense == SumAmounts({t \in mine : t.transaction_type = "EXPENSE"})
        current_month == (utcnow \div 100) % 100
        current_year == utcnow \div 10000
        total_budgeted ==
            SumAmounts({b \in budgets : /\ b.user_id = cu.user
                                        /\ b.month = current_month
                                        /\ b.year = current_year})
        monthly_expenses ==
            SumAmounts({t \in mine :
                          /\ t.transaction_type = "EXPENSE"
                          /\ (t.transaction_date \div 100) % 100 = current_month
                          /\ t.transaction_date \div 10000 = current_year})
        months_shown == sorted_months(mine, months)
    IN
    IF cu.status # 200
    THEN Answer("get_dashboard", req, cu.status, cu.detail, NoBody, 0)
    ELSE \E ordered \in DateDescending(mine) :
            Answer("get_dashboard", req, 200, "",
                   [summary |->
                       [total_income |-> total_income,
                        total_expense |-> total_expense,
                        savings |-> total_income - total_expense,
                        transaction_count |-> Cardinality(mine),
                        budget_utilization |->
                            IF total_budgeted > 0
                            THEN round_percentage(monthly_expenses, total_budgeted)
                            ELSE 0],
                    category_spending |-> CategorySpending(ordered, total_expense),
                    monthly_trend |-> [i \in DOMAIN months_shown |->
                                          monthly_data(mine, months_shown[i])],
                    recent_transactions |->
                        [i \in DOMAIN Head_n(ordered, 10) |->
                            TransactionResponse(ordered[i])]], cu.user)

\* GET /dashboard/charts/monthly-trend
MonthlyTrend(credentials, months) ==
    LET cu == get_current_user(credentials)
        req == [credentials |-> credentials, months |-> months]
        mine == {t \in transactions : t.user_id = cu.user}
        months_shown == sorted_months(mine, months)
    IN
    IF cu.status # 200
    THEN Answer("monthly_trend", req, cu.status, cu.detail, NoBody, 0)
    ELSE Answer("monthly_trend", req, 200, "",
                [data |-> [i \in DOMAIN months_shown |->
                             monthly_data_chart(mine, months_shown[i])]], cu.user)

----------------------------------------------------------------------------
(* Handlers taken in two steps: the queries, then the insert and commit.    *)
(* Between the steps of one request other requests may run their own.      *)

\* The requests in flight at once
MaxInFlight == 2

\* A request of this number is between its steps
InFlight(n) == {r \in in_flight : r.n = n}

\* create_budget up to its duplicate query
CreateBudgetQueries(n, credentials, budget_data) ==
    LET cu == get_current_user(credentials)
        req == [credentials |-> credentials, data |-> budget_data]
    IN
    /\ InFlight(n) = {}
    /\ IF cu.status # 200
       THEN Answer("create_budget", req, cu.status, cu.detail, NoBody, 0)
       ELSE IF Truthy(budget_data.category_id)
               /\ Owned(categories, budget_data.category_id, cu.user) = {}
       THEN Answer("create_budget", req, 404, "Category not found", NoBody, cu.user)
       ELSE IF ExistingBudgets(cu.user, budget_data.category_id,
                               budget_data.month, budget_data.year) # {}
       THEN Answer("create_budget", req, 400,
                   "Budget already exists for this category and period", NoBody, cu.user)
       ELSE /\ in_flight' = in_flight \cup
                   {[n |-> n, op |-> "create_budget", user |-> cu.user, req |-> req]}
            /\ resp' = Response("create_budget_queries", req, 0, "", NoBody, cu.user)
            /\ UNCHANGED <<users, user_settings, refresh_tokens, categories,
                           custom_transaction_types, transactions, budgets, seq, now>>

\* create_budget from db.add(budget) on
CreateBudgetInsert(n) ==
    \E r \in InFlight(n) :
        LET budget_data == r.req.data
            budget == [id |-> seq.budgets + 1,
                       name |-> budget_data.name,
                       amount |-> budget_data.amount,
                       category_id |-> budget_data.category_id,
                       user_id |-> r.user,
                       month |-> budget_data.month,
                       year |-> budget_data.year,
                       alert_threshold |-> budget_data.alert_threshold]
        IN
        /\ r.op = "create_budget"
        /\ RowsCreated < MaxRows
        /\ in_flight' = in_flight \ {r}
        /\ seq' = [seq EXCEPT !.budgets = @ + 1]
        /\ IF ~ForeignKeyHolds(budget.category_id, categories)
           THEN /\ resp' = Response("create_budget", r.req, 500, "IntegrityError",
                                    NoBody, r.user)
                /\ UNCHANGED budgets
           ELSE /\ budgets' = budgets \cup {budget}
                /\ resp' = BudgetAnswer("create_budget", r.req, 201, {budget},
                                        BudgetResponse(budget), r.user)
        /\ UNCHANGED <<users, user_settings, refresh_tokens, categories,
                       custom_transaction_types, transactions, now>>

\* register up to its last check
RegisterChecks(n, user_data) ==
    /\ InFlight(n) = {}
    /\ IF UsernameTaken(user_data.username)
       THEN Answer("register", user_data, 400, "Username already registered", NoBody, 0)
       ELSE IF EmailTaken(user_data.email)
       THEN Answer("register", user_data, 400, "Email already registered", NoBody, 0)
       ELSE IF Len(user_data.password) < PASSWORD_MIN_LENGTH
       THEN Answer("register", user_data, 400, "Password too short", NoBody, 0)
       ELSE /\ in_flight' = in_flight \cup
                   {[n |-> n, op |-> "register", user |-> 0, req |-> user_data]}
            /\ resp' = Response("register_checks", user_data, 0, "", NoBody, 0)
            /\ UNCHANGED <<users, user_settings, refresh_tokens, categories,
                           custom_transaction_types, transactions, budgets, seq, now>>

\* register from db.add(new_user) on: the insert the unique columns of users
\* may refuse, then the default settings
RegisterInsert(n) ==
    \E r \in InFlight(n) :
        LET user_data == r.req
            new_user == [username |-> user_data.username, email |-> user_data.email,
                         hashed_password |-> hash_password(user_data.password),
                         full_name |-> user_data.full_name, is_active |-> TRUE]
        IN
        /\ r.op = "register"
        /\ in_flight' = in_flight \ {r}
        /\ IF UsersUniqueViolated(Append(users, new_user))
           THEN /\ resp' = Response("register", user_data, 500, "IntegrityError", NoBody, 0)
                /\ UNCHANGED <<users, user_settings>>
           ELSE /\ users' = Append(users, new_user)
                /\ user_settings' = Append(user_settings, DefaultSettings(Len(users) + 1))
                /\ resp' = Response("register", user_data, 201, "",
                       [id |-> Len(users) + 1, username |-> user_data.username,
                        email |-> user_data.email, full_name |-> user_data.full_name,
                        is_active |-> TRUE], 0)
        /\ UNCHANGED <<refresh_tokens, categories, custom_transaction_types,
                       transactions, budgets, seq, now>>

----------------------------------------------------------------------------
(* The settings handlers of routers/users.py and the two commits of         *)
(* register, taken in steps                                                 *)

\* no unique constraint on user_settings.user_id
NoUniqueSettings(rows) == FALSE

\* The unique constraint on user_settings.user_id refuses the rows
SettingsUniqueViolated(rows) ==
    \E i, j \in DOMAIN rows : i # j /\ rows[i].user_id = rows[j].user_id

\* The row .first() returns for the user's settings (0: none)
SettingsOf(user) ==
    IF \E i \in DOMAIN user_settings : user_settings[i].user_id = user
    THEN CHOOSE i \in DOMAIN user_settings : user_settings[i].user_id = user
    ELSE 0

UserSettingsResponse(id, row) == [id |-> id, currency |-> row.currency, theme |-> row.theme]

\* register from db.add(new_user) to its first commit
RegisterCommitUser(n) ==
    \E r \in InFlight(n) :
        LET user_data == r.req
            new_user == [username |-> user_data.username, email |-> user_data.email,
                         hashed_password |-> hash_password(user_data.password),
                         full_name |-> user_data.full_name, is_active |-> TRUE]
        IN
        /\ r.op = "register"
        /\ IF UsersUniqueViolated(Append(users, new_user))
           THEN /\ resp' = Response("register", user_data, 500, "IntegrityError", NoBody, 0)
                /\ in_flight' = in_flight \ {r}
                /\ UNCHANGED users
           ELSE /\ users' = Append(users, new_user)
                /\ in_flight' = (in_flight \ {r}) \cup
                       {[n |-> n, op |-> "register_settings", user |-> Len(users) + 1,
                         req |-> user_data]}
                /\ resp' = Response("register_user", user_data, 0, "", NoBody, 0)
        /\ UNCHANGED <<user_settings, refresh_tokens, categories,
                       custom_transaction_types, transactions, budgets, seq, now>>

\* register from db.add(user_settings) to its return
RegisterCommitSettings(n) ==
    \E r \in InFlight(n) :
        LET user_data == r.req
            rows == Append(user_settings, DefaultSettings(r.user))
        IN
        /\ r.op = "register_settings"
        /\ in_flight' = in_flight \ {r}
        /\ IF SettingsUniqueViolated(rows)
           THEN /\ resp' = Response("register", user_data, 500, "IntegrityError", NoBody, 0)
                /\ UNCHANGED user_settings
           ELSE /\ user_settings' = rows
                /\ resp' = Response("register", user_data, 201, "",
                       [id |-> r.user, username |-> user_data.username,
                        email |-> user_data.email, full_name |-> user_data.full_name,
                        is_active |-> TRUE], 0)
        /\ UNCHANGED <<users, refresh_tokens, categories, custom_transaction_types,
                       transactions, budgets, seq, now>>

\* GET /settings up to its query
GetSettingsQuery(n, credentials) ==
    LET cu == get_current_user(credentials)
        req == [credentials |-> credentials]
        settings == SettingsOf(cu.user)
    IN
    /\ InFlight(n) = {}
    /\ IF cu.status # 200
       THEN Answer("get_settings", req, cu.status, cu.detail, NoBody, 0)
       ELSE IF settings # 0
       THEN Answer("get_settings", req, 200, "",
                   UserSettingsResponse(settings, user_settings[settings]), cu.user)
       ELSE /\ in_flight' = in_flight \cup
                   {[n |-> n, op |-> "get_settings", user |-> cu.user, req |-> req]}
            /\ resp' = Response("get_settings_query", req, 0, "", NoBody, cu.user)
            /\ UNCHANGED <<users, user_settings, refresh_tokens, categories,
                           custom_transaction_types, transactions, budgets, seq, now>>

\* GET /settings from db.add(settings) on: the default settings are inserted
GetSettingsInsert(n) ==
    \E r \in InFlight(n) :
        LET rows == Append(user_settings, DefaultSettings(r.user)) IN
        /\ r.op = "get_settings"
        /\ in_flight' = in_flight \ {r}
        /\ IF SettingsUniqueViolated(rows)
           THEN /\ resp' = Response("get_settings", r.req, 500, "IntegrityError",
                                    NoBody, r.user)
                /\ UNCHANGED user_settings
           ELSE /\ user_settings' = rows
                /\ resp' = Response("get_settings", r.req, 200, "",
                                    UserSettingsResponse(Len(rows), rows[Len(rows)]), r.user)
        /\ UNCHANGED <<users, refresh_tokens, categories, custom_transaction_types,
                       transactions, budgets, seq, now>>

\* PUT /settings up to its query; the request remembers the row it found
UpdateSettingsQuery(n, credentials, settings_update) ==
    LET cu == get_current_user(credentials)
        req == [credentials |-> credentials, data |-> settings_update,
                found |-> SettingsOf(cu.user)]
    IN
    /\ InFlight(n) = {}
    /\ IF cu.status # 200
       THEN Answer("update_settings", req, cu.status, cu.detail, NoBody, 0)
       ELSE /\ in_flight' = in_flight \cup
                   {[n |-> n, op |-> "update_settings", user |-> cu.user, req |-> req]}
            /\ resp' = Response("update_settings_query", req, 0, "", NoBody, cu.user)
            /\ UNCHANGED <<users, user_settings, refresh_tokens, categories,
                           custom_transaction_types, transactions, budgets, seq, now>>

\* PUT /settings from its assignments to its commit: the row found is
\* updated, or a new row is inserted with the values given
UpdateSettingsCommit(n) ==
    \E r \in InFlight(n) :
        LET data == r.req.data
            changed(row) ==
                [row EXCEPT
                   !.currency = IF data.currency # None THEN data.currency ELSE @,
                   !.theme = IF data.theme # None THEN data.theme ELSE @]
            rows == IF r.req.found # 0
                    THEN [user_settings EXCEPT ![r.req.found] = changed(@)]
                    ELSE Append(user_settings, changed(DefaultSettings(r.user)))
            id == IF r.req.found # 0 THEN r.req.found ELSE Len(rows)
        IN
        /\ r.op = "update_settings"
        /\ in_flight' = in_flight \ {r}
        /\ IF SettingsUniqueViolated(rows)
           THEN /\ resp' = Response("update_settings", r.req, 500, "IntegrityError",
                                    NoBody, r.user)
                /\ UNCHANGED user_settings
           ELSE /\ user_settings' = rows
                /\ resp' = Response("update_settings", r.req, 200, "",
                                    UserSettingsResponse(id, rows[id]), r.user)
        /\ UNCHANGED <<users, refresh_tokens, categories, custom_transaction_types,
                       transactions, budgets, seq, now>>

----------------------------------------------------------------------------
(* The environment *)

\* Time passes
Tick(d) ==
    /\ now + d \in Times
    /\ now' = now + d
    /\ resp' = Response("tick", NoBody, 0, "", NoBody, 0)
    /\ UNCHANGED <<authTables, financeTables>>

\* users.is_active is cleared in the database (no handler writes the column)
Deactivate(u) ==
    /\ u \in DOMAIN users
    /\ users[u].is_active
    /\ users' = [users EXCEPT ![u].is_active = FALSE]
    /\ resp' = Response("deactivate", NoBody, 0, "", NoBody, 0)
    /\ UNCHANGED <<user_settings, refresh_tokens, financeTables, now>>

----------------------------------------------------------------------------
Init ==
    /\ users = <<>>
    /\ user_settings = <<>>
    /\ refresh_tokens = <<>>
    /\ categories = {}
    /\ custom_transaction_types = {}
    /\ transactions = {}
    /\ budgets = {}
    /\ seq = [categories |-> 0, custom_transaction_types |-> 0,
              transactions |-> 0, budgets |-> 0]
    /\ now = 0
    /\ resp = Response("none", NoBody, 0, "", NoBody, 0)
    /\ in_flight = {}

----------------------------------------------------------------------------
(* Requests *)

Alice == [username |-> "alice", email |-> "alice@x.io", password |-> "password1",
          full_name |-> None]
Bob == [username |-> "bobby", email |-> "bob@x.io", password |-> "password2",
        full_name |-> None]

\* A JWT signed by the server for user id sub
SignedAccess(sub, exp) ==
    [kind |-> "jwt", signed |-> TRUE, type |-> "access", sub |-> ToString(sub), exp |-> exp]

NoCredentials == [kind |-> "none"]

LastTime == MaxTicks * (REFRESH_TOKEN_EXPIRE_DAYS * MinutesPerDay + 1)

\* The credentials of the first two users
UserBearers == {SignedAccess(1, LastTime), SignedAccess(2, LastTime)}

\* The credentials of the first two users, good for the whole run, and none
SessionBearers ==
    {SignedAccess(1, LastTime), SignedAccess(2, LastTime), NoCredentials}

\* Every shape of bearer credential: JWTs of either signature, type, subject
\* and expiry, a refresh token string, and none
AllBearers ==
    [kind : {"jwt"}, signed : BOOLEAN, type : {"access", "refresh"},
     sub : {None, "1", "2", "3"},
     exp : {t + ACCESS_TOKEN_EXPIRE_MINUTES : t \in Times}]
    \cup {[kind |-> "opaque", token |-> 1], NoCredentials}

SessionLogins ==
    [username_or_email : {"alice", "bob@x.io", "nobody"},
     password : {"password1", "password2"}]

\* Refresh token strings a client may present: every stored one and one more
PresentedTokens == [refresh_token : 1..(MaxTokens + 1)]

\* Registrations competing for two usernames and two emails; a username may
\* have the form of an email address
UserRegisters ==
    [username : {"alice", "bob@x.io"}, email : {"alice@x.io", "bob@x.io"},
     password : {"password1"}, full_name : {None}]

UserUpdates ==
    [email : {None, "alice@x.io", "bob@x.io", "carol@x.io"}, full_name : {None, "Al"}]

----------------------------------------------------------------------------
(* Specifications *)

\* The logins of the two users that succeed while they are active
RightLogins ==
    {[username_or_email |-> "alice", password |-> "password1"],
     [username_or_email |-> "bob@x.io", password |-> "password2"]}

\* Sessions: login, refresh and logout as time passes; the first user may be
\* deactivated
NextSession ==
    \/ \E user_data \in {Alice, Bob} : Register(user_data)
    \/ \E login_data \in RightLogins : Login(login_data)
    \/ \E token_data \in PresentedTokens : Refresh(token_data)
    \/ \E c \in UserBearers, token_data \in PresentedTokens : Logout(c, token_data)
    \/ \E d \in Delays : Tick(d)
    \/ \E u \in {1} : Deactivate(u)

SpecSession == Init /\ [][NextSession]_vars

\* Access control: every bearer credential against get_current_user
NextAccess ==
    \/ \E user_data \in {Alice, Bob} : Register(user_data)
    \/ \E c \in AllBearers : Me(c)
    \/ \E d \in Delays : Tick(d)
    \/ \E u \in 1..2 : Deactivate(u)

SpecAccess == Init /\ [][NextAccess]_vars

\* Accounts: registrations and profile updates
NextUsers ==
    \/ \E user_data \in UserRegisters : Register(user_data)
    \/ \E c \in SessionBearers, user_update \in UserUpdates : UpdateProfile(c, user_update)
    \/ \E payload \in [name : {"alice", "bob@x.io"}] : CheckUsername(payload)

SpecUsers == Init /\ [][NextUsers]_vars

RowIds == 1..MaxRows
LinkedRowIds == 1..MaxLinkedRows

RecordIds == 1..MaxRecordRows

CategoryCreates == [name : {"food"}, description : {None}, transaction_type : {"EXPENSE"}]
CategoryUpdates == [name : {"rent"}, description : {None}]
CustomTypeCreates == [name : {"gift"}]
CustomTypeUpdates == [name : {"loan"}]
TransactionCreates ==
    [amount : {5}, transaction_type : {"EXPENSE"}, category_id : {Null},
     custom_type_id : {Null}, transaction_date : {20240115}, notes : {None}]
TransactionUpdates ==
    [amount : {7}, transaction_type : {None}, category_id : {Null},
     custom_type_id : {Null}, transaction_date : {Null}, notes : {None}]
TransactionFilters ==
    [transaction_type : {None}, category_id : {Null}, start_date : {Null},
     end_date : {Null}, page : {1}, page_size : {50}]
BudgetCreates ==
    [name : {"january"}, amount : {10}, category_id : {Null}, month : {1},
     year : {2024}, alert_threshold : {80}]
BudgetUpdates ==
    [name : {None}, amount : {20}, category_id : {Null}, alert_threshold : {Null}]
BudgetFilters == [month : {Null}, year : {Null}, category_id : {Null}]

\* Records: every handler of the finance tables, called by two users
NextRecords ==
    \/ \E user_data \in {Alice, Bob} : Register(user_data)
    \/ \E c \in UserBearers, d \in CategoryCreates  :
          RowsCreated < MaxRecordRows /\ CreateCategory(c, d)
    \/ \E c \in UserBearers : ListCategories(c, None)
    \/ \E c \in UserBearers, id \in RecordIds : GetCategory(c, id)
    \/ \E c \in UserBearers, id \in RecordIds, d \in CategoryUpdates : UpdateCategory(c, id, d)
    \/ \E c \in UserBearers, id \in RecordIds : DeleteCategory(c, id)
    \/ \E c \in UserBearers, d \in CustomTypeCreates  :
          RowsCreated < MaxRecordRows /\ CreateCustomType(c, d)
    \/ \E c \in UserBearers : ListCustomTypes(c)
    \/ \E c \in UserBearers, id \in RecordIds, d \in CustomTypeUpdates : UpdateCustomType(c, id, d)
    \/ \E c \in UserBearers, id \in RecordIds : DeleteCustomType(c, id)
    \/ \E c \in UserBearers, d \in TransactionCreates  :
          RowsCreated < MaxRecordRows /\ CreateTransaction(c, d)
    \/ \E c \in UserBearers, f \in TransactionFilters : ListTransactions(c, f)
    \/ \E c \in UserBearers, id \in RecordIds : GetTransaction(c, id)
    \/ \E c \in UserBearers, id \in RecordIds, d \in TransactionUpdates : UpdateTransaction(c, id, d)
    \/ \E c \in UserBearers, id \in RecordIds : DeleteTransaction(c, id)
    \/ \E c \in UserBearers, d \in BudgetCreates  :
          RowsCreated < MaxRecordRows /\ CreateBudget(c, d)
    \/ \E c \in UserBearers, f \in BudgetFilters : ListBudgets(c, f)
    \/ \E c \in UserBearers, id \in RecordIds : GetBudget(c, id)
    \/ \E c \in UserBearers, id \in RecordIds, d \in BudgetUpdates : UpdateBudget(c, id, d)
    \/ \E c \in UserBearers, id \in RecordIds : DeleteBudget(c, id)

SpecRecords == Init /\ [][NextRecords]_vars

\* Budgets: the budgets of two users over the categories they create
BudgetKeyCreates ==
    [name : {"january"}, amount : {10}, category_id : {Null, 1, 2}, month : {1},
     year : {2024}, alert_threshold : {80}]
BudgetKeyUpdates ==
    [name : {None}, amount : {Null}, category_id : {Null, 1, 2}, alert_threshold : {Null}]

NextBudgets ==
    \/ \E user_data \in {Alice, Bob} : Register(user_data)
    \/ \E c \in UserBearers, d \in CategoryCreates : CreateCategory(c, d)
    \/ \E c \in UserBearers, d \in BudgetKeyCreates : CreateBudget(c, d)
    \/ \E c \in UserBearers, id \in RowIds, d \in BudgetKeyUpdates : UpdateBudget(c, id, d)
    \/ \E c \in UserBearers, id \in RowIds : DeleteBudget(c, id)

SpecBudgets == Init /\ [][NextBudgets]_vars

\* Credentials get_current_user refuses: none, a JWT whose signature does
\* not verify, an expired one, and a refresh token string
RefusedBearers ==
    {NoCredentials,
     [kind |-> "jwt", signed |-> FALSE, type |-> "access", sub |-> "1", exp |-> LastTime],
     [kind |-> "opaque", token |-> 1]}

\* The gate: two users fill the tables, then every handler is called with
\* credentials that get_current_user refuses
NextGate ==
    \/ \E user_data \in {Alice, Bob} : Register(user_data)
    \/ \E login_data \in {[username_or_email |-> "alice", password |-> "password1"]} :
          Login(login_data)
    \/ \E c \in UserBearers, d \in CategoryCreates :
          RowsCreated < MaxRecordRows /\ CreateCategory(c, d)
    \/ \E c \in UserBearers, d \in CustomTypeCreates :
          RowsCreated < MaxRecordRows /\ CreateCustomType(c, d)
    \/ \E c \in UserBearers, d \in TransactionCreates :
          RowsCreated < MaxRecordRows /\ CreateTransaction(c, d)
    \/ \E c \in UserBearers, d \in BudgetCreates :
          RowsCreated < MaxRecordRows /\ CreateBudget(c, d)
    \/ \E c \in RefusedBearers : GetUsers(c)
    \/ \E c \in RefusedBearers : Me(c)
    \/ \E c \in RefusedBearers, t \in PresentedTokens : Logout(c, t)
    \/ \E c \in RefusedBearers, d \in UserUpdates : UpdateProfile(c, d)
    \/ \E c \in RefusedBearers : ListCategories(c, None)
    \/ \E c \in RefusedBearers, id \in RecordIds : GetCategory(c, id)
    \/ \E c \in RefusedBearers, id \in RecordIds, d \in CategoryUpdates : UpdateCategory(c, id, d)
    \/ \E c \in RefusedBearers, id \in RecordIds : DeleteCategory(c, id)
    \/ \E c \in RefusedBearers : ListCustomTypes(c)
    \/ \E c \in RefusedBearers, id \in RecordIds, d \in CustomTypeUpdates : UpdateCustomType(c, id, d)
    \/ \E c \in RefusedBearers, id \in RecordIds : DeleteCustomType(c, id)
    \/ \E c \in RefusedBearers, f \in TransactionFilters : ListTransactions(c, f)
    \/ \E c \in RefusedBearers, id \in RecordIds : GetTransaction(c, id)
    \/ \E c \in RefusedBearers, id \in RecordIds, d \in TransactionUpdates : UpdateTransaction(c, id, d)
    \/ \E c \in RefusedBearers, id \in RecordIds : DeleteTransaction(c, id)
    \/ \E c \in RefusedBearers, f \in BudgetFilters : ListBudgets(c, f)
    \/ \E c \in RefusedBearers, id \in RecordIds : GetBudget(c, id)
    \/ \E c \in RefusedBearers, id \in RecordIds, d \in BudgetUpdates : UpdateBudget(c, id, d)
    \/ \E c \in RefusedBearers, id \in RecordIds : DeleteBudget(c, id)

SpecGate == Init /\ [][NextGate]_vars

\* Transactions that may refer to the first category and the first custom type
LinkedTransactionCreates ==
    [amount : {5}, transaction_type : {"EXPENSE"}, category_id : {Null, 1},
     custom_type_id : {Null, 1}, transaction_date : {Null, 20240115}, notes : {None}]

\* The life of a record: created, read, updated and deleted among the
\* records it refers to
NextLifecycle ==
    \/ \E user_data \in {Alice} : Register(user_data)
    \/ \E c \in {SignedAccess(1, LastTime)}, d \in CategoryCreates : RowsCreated < MaxLinkedRows /\ CreateCategory(c, d)
    \/ \E c \in {SignedAccess(1, LastTime)}, id \in LinkedRowIds : GetCategory(c, id)
    \/ \E c \in {SignedAccess(1, LastTime)}, id \in LinkedRowIds, d \in CategoryUpdates :
          UpdateCategory(c, id, d)
    \/ \E c \in {SignedAccess(1, LastTime)}, id \in LinkedRowIds : DeleteCategory(c, id)
    \/ \E c \in {SignedAccess(1, LastTime)}, d \in CustomTypeCreates : RowsCreated < MaxLinkedRows /\ CreateCustomType(c, d)
    \/ \E c \in {SignedAccess(1, LastTime)}, id \in LinkedRowIds : DeleteCustomType(c, id)
    \/ \E c \in {SignedAccess(1, LastTime)}, d \in LinkedTransactionCreates :
          RowsCreated < MaxLinkedRows /\ CreateTransaction(c, d)
    \/ \E c \in {SignedAccess(1, LastTime)}, id \in LinkedRowIds : GetTransaction(c, id)
    \/ \E c \in {SignedAccess(1, LastTime)}, id \in LinkedRowIds, d \in TransactionUpdates :
          UpdateTransaction(c, id, d)
    \/ \E c \in {SignedAccess(1, LastTime)}, id \in LinkedRowIds : DeleteTransaction(c, id)
    \/ \E c \in {SignedAccess(1, LastTime)}, d \in BudgetKeyCreates : RowsCreated < MaxLinkedRows /\ CreateBudget(c, d)
    \/ \E c \in {SignedAccess(1, LastTime)}, id \in LinkedRowIds : GetBudget(c, id)
    \/ \E c \in {SignedAccess(1, LastTime)}, id \in LinkedRowIds, d \in BudgetUpdates :
          UpdateBudget(c, id, d)
    \/ \E c \in {SignedAccess(1, LastTime)}, id \in LinkedRowIds : DeleteBudget(c, id)

SpecLifecycle == Init /\ [][NextLifecycle]_vars

\* Categories of two names and both types, created, renamed and deleted
NamedCategoryCreates ==
    [name : {"food", "rent"}, description : {None}, transaction_type : {"EXPENSE", "INCOME"}]
NamedCategoryUpdates == [name : {"food", "rent"}, description : {None}]

\* The categories created in a run of the categories specification
MaxCategories == 2

NextCategories ==
    \/ \E user_data \in {Alice, Bob} : Register(user_data)
    \/ \E c \in UserBearers, d \in NamedCategoryCreates :
          seq.categories < MaxCategories /\ CreateCategory(c, d)
    \/ \E c \in UserBearers, id \in 1..MaxCategories, d \in NamedCategoryUpdates :
          UpdateCategory(c, id, d)
    \/ \E c \in UserBearers, id \in 1..MaxCategories : DeleteCategory(c, id)

SpecCategories == Init /\ [][NextCategories]_vars

\* Spending: expenses and incomes around the end of December, with and
\* without the first category, under budgets of November and December
DatedTransaction(transaction_type, category_id, transaction_date) ==
    [amount |-> 5, transaction_type |-> transaction_type, category_id |-> category_id,
     custom_type_id |-> Null, transaction_date |-> transaction_date, notes |-> None]
DatedTransactionCreates ==
    {DatedTransaction("EXPENSE", Null, 20241231),
     DatedTransaction("EXPENSE", 1, 20241231),
     DatedTransaction("INCOME", 1, 20241231),
     DatedTransaction("EXPENSE", 1, 20250101),
     DatedTransaction("EXPENSE", 1, 20241130)}
MonthBudgetCreates ==
    [name : {"month"}, amount : {10}, category_id : {Null, 1}, month : {11, 12},
     year : {2024}, alert_threshold : {80}]

NextSpending ==
    \/ \E user_data \in {Alice, Bob} : Register(user_data)
    \/ \E c \in {SignedAccess(1, LastTime)}, d \in CategoryCreates : CreateCategory(c, d)
    \/ \E c \in {SignedAccess(1, LastTime)}, d \in DatedTransactionCreates :
          CreateTransaction(c, d)
    \/ \E c \in {SignedAccess(2, LastTime)} :
          CreateTransaction(c, DatedTransaction("EXPENSE", Null, 20241231))
    \/ \E c \in {SignedAccess(1, LastTime)}, d \in MonthBudgetCreates :
          seq.budgets < MaxRecordRows /\ CreateBudget(c, d)
    \/ \E c \in {SignedAccess(1, LastTime)}, id \in RecordIds : GetBudget(c, id)

SpecSpending == Init /\ [][NextSpending]_vars

\* Concurrent create_budget requests of two users
NextBudgetRace ==
    \/ \E user_data \in {Alice, Bob} : Register(user_data)
    \/ \E c \in UserBearers, d \in CategoryCreates : CreateCategory(c, d)
    \/ \E n \in 1..MaxInFlight, c \in UserBearers, d \in BudgetKeyCreates :
          CreateBudgetQueries(n, c, d)
    \/ \E n \in 1..MaxInFlight : CreateBudgetInsert(n)

SpecBudgetRace == Init /\ [][NextBudgetRace]_vars

\* Concurrent register requests competing for two usernames and two emails
NextRegisterRace ==
    \/ \E n \in 1..MaxInFlight, user_data \in UserRegisters : RegisterChecks(n, user_data)
    \/ \E n \in 1..MaxInFlight : RegisterInsert(n)

SpecRegisterRace == Init /\ [][NextRegisterRace]_vars

\* Transactions of two users pointed at the categories either has created
LinkedTransactionUpdates ==
    [amount : {Null}, transaction_type : {None}, category_id : {Null, 1, 2},
     custom_type_id : {Null}, transaction_date : {Null}, notes : {None}]

NextTransactionLinks ==
    \/ \E user_data \in {Alice, Bob} : Register(user_data)
    \/ \E c \in UserBearers, d \in CategoryCreates : CreateCategory(c, d)
    \/ \E c \in UserBearers, d \in TransactionCreates \cup
                                     {DatedTransaction("EXPENSE", 1, 20240115)} :
          CreateTransaction(c, d)
    \/ \E c \in UserBearers, id \in RowIds, d \in LinkedTransactionUpdates :
          UpdateTransaction(c, id, d)

SpecTransactionLinks == Init /\ [][NextTransactionLinks]_vars

\* Logins: by username, by email and by an unknown identifier, with right
\* and wrong passwords, of users that may be deactivated
NextLogin ==
    \/ \E user_data \in {Alice, Bob} : Register(user_data)
    \/ \E login_data \in SessionLogins : Login(login_data)
    \/ \E u \in 1..2 : Deactivate(u)

SpecLogin == Init /\ [][NextLogin]_vars

\* Categories deleted among the transactions that refer to them
CategoryLinks ==
    [amount : {Null}, transaction_type : {None}, category_id : {1, 2},
     custom_type_id : {Null}, transaction_date : {Null}, notes : {None}]

NextCategoryDelete ==
    \/ \E user_data \in {Alice, Bob} : Register(user_data)
    \/ \E c \in UserBearers, d \in CategoryCreates : RowsCreated < MaxLinkedRows /\ CreateCategory(c, d)
    \/ \E c \in UserBearers,
          d \in {DatedTransaction("EXPENSE", k, 20240115) : k \in {Null, 1}} :
          RowsCreated < MaxLinkedRows /\ CreateTransaction(c, d)
    \/ \E c \in UserBearers, id \in LinkedRowIds, d \in CategoryLinks :
          UpdateTransaction(c, id, d)
    \/ \E c \in UserBearers, id \in LinkedRowIds : DeleteTransaction(c, id)
    \/ \E c \in UserBearers, id \in LinkedRowIds : DeleteCategory(c, id)

SpecCategoryDelete == Init /\ [][NextCategoryDelete]_vars

\* Password changes from one of two passwords to the other, the current one
\* right or wrong
PasswordChanges ==
    {[current_password |-> "password1", new_password |-> "password9"],
     [current_password |-> "password9", new_password |-> "password1"]}

NextPassword ==
    \/ \E user_data \in UserRegisters : Register(user_data)
    \/ \E c \in SessionBearers, password_data \in PasswordChanges :
          ChangePassword(c, password_data)
    \/ \E login_data \in [username_or_email : {"alice", "bob@x.io"},
                          password : {"password1", "password9"}] : Login(login_data)

SpecPassword == Init /\ [][NextPassword]_vars

\* The monthly overview: December budgets of two amounts, with and without
\* the first category and an alert threshold, over the dated transactions
OverviewBudgetCreates ==
    [name : {"month"}, amount : {4, 10}, category_id : {Null, 1}, month : {12},
     year : {2024}, alert_threshold : {Null, 80}]

NextOverview ==
    \/ \E user_data \in {Alice} : Register(user_data)
    \/ \E c \in {SignedAccess(1, LastTime)}, d \in CategoryCreates : CreateCategory(c, d)
    \/ \E c \in {SignedAccess(1, LastTime)},
          d \in DatedTransactionCreates \ {DatedTransaction("EXPENSE", 1, 20250101)} :
          CreateTransaction(c, d)
    \/ \E c \in {SignedAccess(1, LastTime)}, d \in OverviewBudgetCreates : CreateBudget(c, d)
    \/ \E c \in {SignedAccess(1, LastTime)}, month \in {11, 12} :
          GetMonthlyBudgetOverview(c, month, 2024)

SpecOverview == Init /\ [][NextOverview]_vars

\* The monthly trend: incomes and expenses of two months of 2024 and of a
\* month of the year 999, shown for one or two months
TrendTransactionCreates ==
    {DatedTransaction("INCOME", Null, 20240115),
     DatedTransaction("EXPENSE", Null, 20240115),
     DatedTransaction("EXPENSE", Null, 20240210),
     DatedTransaction("INCOME", Null, 9991205)}

NextTrend ==
    \/ \E user_data \in {Alice, Bob} : Register(user_data)
    \/ \E c \in {SignedAccess(1, LastTime)}, d \in TrendTransactionCreates :
          RowsCreated < MaxLinkedRows /\ CreateTransaction(c, d)
    \/ \E c \in {SignedAccess(2, LastTime)} :
          /\ RowsCreated < MaxLinkedRows
          /\ CreateTransaction(c, DatedTransaction("EXPENSE", Null, 20240115))
    \/ \E c \in {SignedAccess(1, LastTime)}, months \in {1, 2} : GetDashboard(c, months)
    \/ \E c \in {SignedAccess(1, LastTime)}, months \in {1, 2} : MonthlyTrend(c, months)

SpecTrend == Init /\ [][NextTrend]_vars

\* Paging: transactions of three dates listed in pages of one or two under
\* filters on type, category and start date
PagedTransactionCreates ==
    {DatedTransaction("EXPENSE", Null, 20240115),
     DatedTransaction("EXPENSE", Null, 20240210),
     DatedTransaction("INCOME", Null, 20240305)}
PagingFilters ==
    [transaction_type : {None, "INCOME"}, category_id : {Null, 0},
     start_date : {Null, 20240201}, end_date : {Null}, page : {1, 2},
     page_size : {1, 2}]

NextPaging ==
    \/ \E user_data \in {Alice, Bob} : Register(user_data)
    \/ \E c \in {SignedAccess(1, LastTime)}, d \in PagedTransactionCreates :
          RowsCreated < MaxLinkedRows /\ CreateTransaction(c, d)
    \/ \E c \in {SignedAccess(2, LastTime)} :
          /\ RowsCreated < MaxLinkedRows
          /\ CreateTransaction(c, DatedTransaction("EXPENSE", Null, 20240115))
    \/ \E c \in {SignedAccess(1, LastTime)}, filters \in PagingFilters :
          ListTransactions(c, filters)

SpecPaging == Init /\ [][NextPaging]_vars

\* Settings: a registration and the settings requests of the new user, in
\* any interleaving of their steps
UserSettingsUpdates == [currency : {None, "EUR"}, theme : {None, "dark"}]

NextSettings ==
    \/ \E n \in 1..MaxInFlight, user_data \in {Alice, Bob} : RegisterChecks(n, user_data)
    \/ \E n \in 1..MaxInFlight : RegisterCommitUser(n)
    \/ \E n \in 1..MaxInFlight : RegisterCommitSettings(n)
    \/ \E n \in 1..MaxInFlight, c \in {SignedAccess(1, LastTime)} : GetSettingsQuery(n, c)
    \/ \E n \in 1..MaxInFlight : GetSettingsInsert(n)
    \/ \E n \in 1..MaxInFlight, c \in {SignedAccess(1, LastTime)},
          settings_update \in UserSettingsUpdates :
          UpdateSettingsQuery(n, c, settings_update)
    \/ \E n \in 1..MaxInFlight : UpdateSettingsCommit(n)

SpecSettings == Init /\ [][NextSettings]_vars

----------------------------------------------------------------------------
(* Properties of the accounts *)

\* C5: no two users share a username, and a register request whose username
\* is already taken is answered 400 and leaves the users, user_settings and
\* refresh_tokens tables as they were.
C5_UsernameUnique ==
    /\ [](\A i, j \in DOMAIN users : users[i].username = users[j].username => i = j)
    /\ [][(/\ resp'.op = "register"
           /\ \E i \in DOMAIN users : users[i].username = resp'.req.username)
          => (resp'.status = 400 /\ UNCHANGED authTables)]_vars

\* Two users are registered and a further registration with a taken username
\* has been refused.
C5_Witness ==
    /\ resp.op = "register"
    /\ resp.status = 400
    /\ Len(users) = 2
    /\ \E i \in DOMAIN users : users[i].username = resp.req.username

\* C6: no two users share an email, and a register or update_profile request
\* that would give a user an email another user holds is answered 400 and
\* changes no users row.
C6_EmailUnique ==
    /\ [](\A i, j \in DOMAIN users : users[i].email = users[j].email => i = j)
    /\ [][(/\ resp'.op = "register"
           /\ \E i \in DOMAIN users : users[i].email = resp'.req.email)
          => (resp'.status = 400 /\ users' = users)]_vars
    /\ [][(/\ resp'.op = "update_profile"
           /\ resp'.user # 0
           /\ \E i \in DOMAIN users : i # resp'.user /\ users[i].email = resp'.req.email)
          => (resp'.status = 400 /\ users' = users)]_vars

\* A user asked for the email of another user and was refused.
C6_Witness ==
    /\ resp.op = "update_profile"
    /\ resp.status = 400
    /\ resp.user # 0
    /\ \E i \in DOMAIN users : i # resp.user /\ users[i].email = resp.req.email

----------------------------------------------------------------------------
(* Properties of access control *)

\* The credential is a JWT signed by the server, unexpired and of type access
ValidAccess(c) == c.kind = "jwt" /\ c.signed /\ c.exp >= now /\ c.type = "access"

\* The users the credential's sub names
Subjects(c) == {u \in DOMAIN users : c.sub = ToString(u)}

\* C7: a request is handled as user U only if its bearer token is validly
\* signed, unexpired, of type access and has sub = U, and U exists and is
\* active; any other token is answered 401, and a valid token of an inactive
\* user 403.
C7_AuthenticatedOnlyByValidAccessToken ==
    resp.op = "me" =>
        LET c == resp.req.credentials IN
        /\ resp.user # 0 =>
               /\ ValidAccess(c)
               /\ Subjects(c) = {resp.user}
               /\ users[resp.user].is_active
        /\ resp.status = 200 <=> resp.user # 0
        /\ (c.kind # "none" /\ ~(ValidAccess(c) /\ Subjects(c) # {})) =>
               resp.status = 401
        /\ (c.kind # "none" /\ ValidAccess(c)
               /\ \E u \in Subjects(c) : ~users[u].is_active) =>
               resp.status = 403

\* A valid access token of a deactivated user has been refused with 403.
C7_Witness ==
    /\ resp.op = "me"
    /\ resp.status = 403
    /\ ValidAccess(resp.req.credentials)
    /\ now > 0
    /\ \E u \in Subjects(resp.req.credentials) : ~users[u].is_active

----------------------------------------------------------------------------
(* Properties of the sessions *)

\* The stored row of a refresh token string
RowsOf(token) == {i \in DOMAIN refresh_tokens : refresh_tokens[i].token = token}

\* C1: after a /refresh that presented R went through, R is rotated out: a
\* further /refresh presenting R is refused.
C1_RefreshRotatesOut ==
    (resp.op = "refresh" /\ resp.status # 401) =>
        \A i \in RowsOf(resp.req.refresh_token) :
            refresh_tokens[i].is_revoked \/ refresh_tokens[i].expires_at < now

\* C2: a refresh token revoked by /logout stays revoked, and every /refresh
\* presenting it is answered 401 and creates no access or refresh token.
C2_RevokedStaysRevoked ==
    /\ [][\A i \in DOMAIN refresh_tokens :
            refresh_tokens[i].is_revoked =>
                /\ i \in DOMAIN refresh_tokens'
                /\ refresh_tokens'[i].token = refresh_tokens[i].token
                /\ refresh_tokens'[i].is_revoked]_vars
    /\ [][(/\ resp'.op = "refresh"
           /\ \E i \in RowsOf(resp'.req.refresh_token) : refresh_tokens[i].is_revoked)
          => (/\ resp'.status = 401
              /\ resp'.body = NoBody
              /\ refresh_tokens' = refresh_tokens)]_vars

\* A refresh token that had not expired was presented after its logout and
\* refused.
C2_Witness ==
    /\ resp.op = "refresh"
    /\ resp.status = 401
    /\ \E i \in RowsOf(resp.req.refresh_token) :
          refresh_tokens[i].is_revoked /\ refresh_tokens[i].expires_at >= now

\* C8: a /refresh presenting a stored, unrevoked, unexpired refresh token of
\* user U answers with an access token whose sub is U and stores a new
\* refresh token of U whose string no earlier row holds; the strings of the
\* table are pairwise distinct.
C8_RefreshIssuesForOwner ==
    /\ \A i, j \in DOMAIN refresh_tokens :
          refresh_tokens[i].token = refresh_tokens[j].token => i = j
    /\ resp.op = "refresh" =>
          \A i \in RowsOf(resp.req.refresh_token) :
             (~refresh_tokens[i].is_revoked /\ refresh_tokens[i].expires_at >= now) =>
                LET last == Len(refresh_tokens) IN
                /\ resp.status = 200
                /\ resp.body.access_token.sub = ToString(refresh_tokens[i].user_id)
                /\ resp.body.refresh_token = refresh_tokens[last].token
                /\ refresh_tokens[last].user_id = refresh_tokens[i].user_id
                /\ \A j \in 1..(last - 1) :
                      refresh_tokens[j].token # refresh_tokens[last].token

\* C9: a /refresh presenting a refresh token that is unknown, or whose
\* expires_at is earlier than the current time, is answered 401 and creates
\* neither an access token nor a refresh token row.
C9_UnknownOrExpiredRefused ==
    [][(/\ resp'.op = "refresh"
        /\ \/ RowsOf(resp'.req.refresh_token) = {}
           \/ \E i \in RowsOf(resp'.req.refresh_token) : refresh_tokens[i].expires_at < now)
       => (/\ resp'.status = 401
           /\ resp'.body = NoBody
           /\ refresh_tokens' = refresh_tokens)]_vars

\* An unrevoked refresh token was presented after its expiry and refused.
C9_Witness ==
    /\ resp.op = "refresh"
    /\ resp.status = 401
    /\ \E i \in RowsOf(resp.req.refresh_token) :
          ~refresh_tokens[i].is_revoked /\ refresh_tokens[i].expires_at < now

----------------------------------------------------------------------------
(* Properties of the records *)

\* C3: no user has two budgets with the same (category_id, month, year), a
\* missing category counting as one category value.
C3_OneBudgetPerKey ==
    \A a, b \in budgets :
        (/\ a.user_id = b.user_id
         /\ a.category_id = b.category_id
         /\ a.month = b.month
         /\ a.year = b.year) => a.id = b.id

\* The handlers that return or modify stored user data
ProtectedOps ==
    {"get_users", "me", "logout", "update_profile",
     "create_category", "list_categories", "get_category", "update_category",
     "delete_category",
     "create_custom_type", "list_custom_types", "update_custom_type",
     "delete_custom_type",
     "create_transaction", "list_transactions", "get_transaction",
     "update_transaction", "delete_transaction",
     "create_budget", "list_budgets", "get_budget", "update_budget", "delete_budget"}

\* C4: every handler other than register, login, refresh and the username
\* check refuses a request that carries no valid access token, returns no
\* records and changes no state.
C4_ProtectedHandlersRefuse ==
    [][(/\ resp'.op \in ProtectedOps
        /\ ~(/\ ValidAccess(resp'.req.credentials)
             /\ \E u \in Subjects(resp'.req.credentials) : users[u].is_active))
       => (/\ resp'.status \in {401, 403}
           /\ resp'.body = NoBody
           /\ UNCHANGED <<tables, seq>>)]_vars

\* The table a handler of one record looks its id up in
TableOf(op) ==
    CASE op \in {"get_category", "update_category", "delete_category"} -> categories
      [] op \in {"update_custom_type", "delete_custom_type"} -> custom_transaction_types
      [] op \in {"get_transaction", "update_transaction", "delete_transaction"} -> transactions
      [] op \in {"get_budget", "update_budget", "delete_budget"} -> budgets
      [] op = "list_categories" -> categories
      [] op = "list_custom_types" -> custom_transaction_types
      [] op = "list_transactions" -> transactions
      [] op = "list_budgets" -> budgets

RecordOps ==
    {"get_category", "update_category", "delete_category",
     "update_custom_type", "delete_custom_type",
     "get_transaction", "update_transaction", "delete_transaction",
     "get_budget", "update_budget", "delete_budget"}

ListOps == {"list_categories", "list_custom_types", "list_transactions", "list_budgets"}

\* The records a list response holds
ListedItems(r) ==
    IF r.op = "list_transactions"
    THEN {r.body.items[i] : i \in DOMAIN r.body.items}
    ELSE r.body.items

\* C10: a get, update or delete by user U naming the id of a transaction,
\* category, budget or custom transaction type of another user is answered
\* 404 and leaves every stored record unchanged; a list returns only records
\* whose user_id is U.
C10_OtherUsersRecordsHidden ==
    /\ [][(/\ resp'.op \in RecordOps
           /\ resp'.user # 0
           /\ \E r \in TableOf(resp'.op) :
                 r.id = resp'.req.id /\ r.user_id # resp'.user)
          => (resp'.status = 404 /\ resp'.body = NoBody /\ UNCHANGED tables)]_vars
    /\ [](resp.op \in ListOps /\ resp.status = 200 =>
            \A item \in ListedItems(resp) :
               \E r \in TableOf(resp.op) : r.id = item.id /\ r.user_id = resp.user)

\* A user asked to update a transaction of another user and got 404.
C10_Witness ==
    /\ resp.op = "update_transaction"
    /\ resp.status = 404
    /\ resp.user # 0
    /\ \E r \in transactions : r.id = resp.req.id /\ r.user_id # resp.user

----------------------------------------------------------------------------
(* Properties of created records *)

\* A create that succeeded stored the values the request supplied
CreatedAsSupplied ==
    LET d == resp'.req.data IN
    /\ (resp'.op = "create_category" /\ resp'.status = 201) =>
          \E r \in categories' :
             /\ r.id = resp'.body.id /\ r.user_id = resp'.user
             /\ r.name = d.name /\ r.description = d.description
             /\ r.transaction_type = d.transaction_type
    /\ (resp'.op = "create_transaction" /\ resp'.status = 201) =>
          \E r \in transactions' :
             /\ r.id = resp'.body.id /\ r.user_id = resp'.user
             /\ r.amount = d.amount /\ r.transaction_type = d.transaction_type
             /\ r.category_id = d.category_id /\ r.custom_type_id = d.custom_type_id
             /\ r.notes = d.notes
             /\ d.transaction_date # Null => r.transaction_date = d.transaction_date
    /\ (resp'.op = "create_budget" /\ resp'.status = 201) =>
          \E r \in budgets' :
             /\ r.id = resp'.body.id /\ r.user_id = resp'.user
             /\ r.name = d.name /\ r.amount = d.amount /\ r.category_id = d.category_id
             /\ r.month = d.month /\ r.year = d.year
             /\ r.alert_threshold = d.alert_threshold

\* Only an update or a delete naming a row's id changes the row
KeptUntilTouched(before, after, touching) ==
    \A r \in before : (resp'.op \in touching /\ resp'.req.id = r.id) \/ r \in after

\* A get returns the stored values of the caller's row
ReturnedAsStored ==
    /\ (resp.op = "get_category" /\ resp.status = 200) =>
          \E r \in categories :
             /\ r.id = resp.req.id /\ r.user_id = resp.user
             /\ resp.body = CategoryResponse(r)
    /\ (resp.op = "get_transaction" /\ resp.status = 200) =>
          \E r \in transactions :
             /\ r.id = resp.req.id /\ r.user_id = resp.user
             /\ resp.body.amount = r.amount
             /\ resp.body.transaction_type = r.transaction_type
             /\ resp.body.category_id = r.category_id
             /\ resp.body.custom_type_id = r.custom_type_id
             /\ resp.body.transaction_date = r.transaction_date
             /\ resp.body.notes = r.notes
    /\ (resp.op = "get_budget" /\ resp.status = 200) =>
          \E r \in budgets :
             /\ r.id = resp.req.id /\ r.user_id = resp.user
             /\ resp.body.name = r.name /\ resp.body.amount = r.amount
             /\ resp.body.category_id = r.category_id
             /\ resp.body.month = r.month /\ resp.body.year = r.year
             /\ resp.body.alert_threshold = r.alert_threshold

\* C11: a transaction, category or budget created by U is stored with the
\* values supplied, keeps them until an update or delete names its id,
\* whatever happens to other records, and a get by U returns them.
C11_CreatedRecordRetrievable ==
    /\ [][CreatedAsSupplied]_vars
    /\ [][/\ KeptUntilTouched(categories, categories',
                               {"update_category", "delete_category"})
          /\ KeptUntilTouched(transactions, transactions',
                               {"update_transaction", "delete_transaction"})
          /\ KeptUntilTouched(budgets, budgets',
                               {"update_budget", "delete_budget"})]_vars
    /\ []ReturnedAsStored

\* C12: no user has two categories with the same (name, transaction_type),
\* and a create or a rename that would make such a pair is answered 400 and
\* changes no category.
C12_CategoryNamesUnique ==
    /\ [](\A a, b \in categories :
            (/\ a.user_id = b.user_id
             /\ a.name = b.name
             /\ a.transaction_type = b.transaction_type) => a.id = b.id)
    /\ [][(/\ resp'.op = "create_category"
           /\ resp'.user # 0
           /\ \E r \in categories :
                 /\ r.user_id = resp'.user
                 /\ r.name = resp'.req.data.name
                 /\ r.transaction_type = resp'.req.data.transaction_type)
          => (resp'.status = 400 /\ categories' = categories)]_vars
    /\ [][(/\ resp'.op = "update_category"
           /\ resp'.user # 0
           /\ \E c, r \in categories :
                 /\ c.id = resp'.req.id /\ c.user_id = resp'.user
                 /\ r.id # c.id /\ r.user_id = resp'.user
                 /\ r.name = resp'.req.data.name
                 /\ r.transaction_type = c.transaction_type)
          => (resp'.status = 400 /\ categories' = categories)]_vars

\* A rename to the name of another category of the same user and type has
\* been refused.
C12_Witness ==
    /\ resp.op = "update_category"
    /\ resp.status = 400
    /\ \E c, r \in categories :
          /\ c.id = resp.req.id /\ c.user_id = resp.user
          /\ r.id # c.id /\ r.user_id = resp.user
          /\ r.name = resp.req.data.name /\ r.transaction_type = c.transaction_type

----------------------------------------------------------------------------
(* Properties of login *)

\* The password is the one the user registered with
RightPassword(u, password) == users[u].hashed_password.digest_of = password

\* C13: a /login whose identifier matches no user, or whose password is
\* wrong, is answered 401; with the right password of an inactive user it is
\* answered 403; neither creates a refresh token row or changes a record.
C13_LoginRefusals ==
    [][resp'.op = "login" =>
        LET m == {u \in DOMAIN users :
                     \/ users[u].username = resp'.req.username_or_email
                     \/ users[u].email = resp'.req.username_or_email}
        IN
        /\ (\A u \in m : ~RightPassword(u, resp'.req.password)) => resp'.status = 401
        /\ (m # {} /\ \A u \in m :
                RightPassword(u, resp'.req.password) /\ ~users[u].is_active)
              => resp'.status = 403
        /\ resp'.status \in {401, 403} =>
              (resp'.body = NoBody /\ UNCHANGED tables)]_vars

\* A user who had logged in was deactivated, and the next login with the
\* right password was answered 403.
C13_Witness ==
    /\ resp.op = "login"
    /\ resp.status = 403
    /\ \E i \in DOMAIN refresh_tokens, u \in DOMAIN users :
          /\ refresh_tokens[i].user_id = u
          /\ ~users[u].is_active
          /\ users[u].username = resp.req.username_or_email
          /\ RightPassword(u, resp.req.password)

----------------------------------------------------------------------------
(* Properties of the budget figures *)

\* The day lies in the month of the year
InMonth(day, year, month) == day \div 10000 = year /\ (day \div 100) % 100 = month

\* The owner's expenses of a budget's month, of its category if it has one
ExpensesOf(b) ==
    {t \in transactions :
        /\ t.user_id = b.user_id
        /\ t.transaction_type = "EXPENSE"
        /\ InMonth(t.transaction_date, b.year, b.month)
        /\ b.category_id # Null => t.category_id = b.category_id}

\* C14: the spent reported for a budget is the sum of the amounts of its
\* owner's EXPENSE transactions dated in its month, of its category when it
\* has one, and remaining is amount minus spent.
C14_SpentIsSumOfExpenses ==
    /\ \A b \in budgets :
          /\ BudgetResponse(b).spent = SumAmounts(ExpensesOf(b))
          /\ BudgetResponse(b).remaining = b.amount - SumAmounts(ExpensesOf(b))
    /\ (resp.op \in {"create_budget", "get_budget"} /\ resp.status \in {200, 201}) =>
          \E b \in budgets :
             /\ b.id = resp.body.id
             /\ resp.body.spent = SumAmounts(ExpensesOf(b))
             /\ resp.body.remaining = resp.body.amount - resp.body.spent

\* A December budget is reported with one expense counted, while an income
\* of its month, an expense of the next day of January or of another user
\* is left out.
C14_Witness ==
    /\ resp.op = "get_budget"
    /\ resp.status = 200
    /\ resp.body.month = 12
    /\ resp.body.spent = 5
    /\ \E t \in transactions :
          /\ t.transaction_date \in {20241231, 20250101}
          /\ t.user_id # resp.user \/ t.transaction_type = "INCOME"
                \/ t.transaction_date = 20250101

----------------------------------------------------------------------------
(* Properties of concurrent requests *)

\* C15: once two concurrent create_budget requests of one user for the same
\* (category_id, month, year) have both finished, at most one budget of that
\* key exists.
C15_OneBudgetPerKeyAfterRace ==
    in_flight = {} =>
        \A a, b \in budgets :
            (/\ a.user_id = b.user_id
             /\ a.category_id = b.category_id
             /\ a.month = b.month
             /\ a.year = b.year) => a = b

\* C16: whatever the interleaving of the checks and the inserts of
\* concurrent register requests, no two users share a username or an email:
\* an insert that would make such a pair is refused by the unique columns
\* and stores nothing.
C16_RegisterRaceKeepsUnique ==
    /\ [](\A i, j \in DOMAIN users :
            (users[i].username = users[j].username \/ users[i].email = users[j].email)
                => i = j)
    /\ [][(/\ in_flight' # in_flight
           /\ \E r \in in_flight \ in_flight', i \in DOMAIN users :
                 \/ users[i].username = r.req.username
                 \/ users[i].email = r.req.email)
          => (resp'.status = 500 /\ UNCHANGED tables)]_vars

\* Two register requests for one username passed their checks together; the
\* insert of the second was refused.
C16_Witness ==
    /\ resp.op = "register"
    /\ resp.status = 500
    /\ in_flight = {}
    /\ \E i \in DOMAIN users : users[i].username = resp.req.username

----------------------------------------------------------------------------
(* Properties of the references between records *)

\* C17: each transaction with a category_id refers to a category of the
\* transaction's own user.
C17_TransactionCategoryOwned ==
    \A t \in transactions :
        t.category_id # Null =>
            \E c \in categories : c.id = t.category_id /\ c.user_id = t.user_id

\* C18: each budget with a category_id refers to a category of the budget's
\* own user.
C18_BudgetCategoryOwned ==
    \A b \in budgets :
        b.category_id # Null =>
            \E c \in categories : c.id = b.category_id /\ c.user_id = b.user_id

----------------------------------------------------------------------------
(* Properties of logout and of the issue of tokens *)

\* C19: a /logout authenticated as user U changes no refresh token of
\* another user.
C19_LogoutRevokesOwnTokensOnly ==
    [][(resp'.op = "logout" /\ resp'.user # 0) =>
         \A i \in DOMAIN refresh_tokens :
            refresh_tokens[i].user_id # resp'.user =>
                refresh_tokens'[i] = refresh_tokens[i]]_vars

\* C20: neither /login nor /refresh issues a token for a user whose
\* is_active is false at the time of the request: no such request stores a
\* refresh token row of, or answers with an access token for, such a user.
C20_NoTokensForInactiveUsers ==
    [][resp'.op \in {"login", "refresh"} =>
         /\ \A i \in DOMAIN refresh_tokens' :
               i > Len(refresh_tokens) => users[refresh_tokens'[i].user_id].is_active
         /\ resp'.status = 200 =>
               \A u \in DOMAIN users :
                  resp'.body.access_token.sub = ToString(u) => users[u].is_active]_vars

----------------------------------------------------------------------------
(* Properties of the login identifier *)

\* C21: any login identifier matches at most one user: no user's username
\* equals a different user's email.
C21_IdentifierMatchesOneUser ==
    \A i, j \in DOMAIN users :
        users[i].username = users[j].email => i = j

----------------------------------------------------------------------------
(* Properties of the /refresh response *)

\* C22: a /refresh whose token passes verify_refresh_token is answered 200
\* with access_token, refresh_token, token_type and user, and no /refresh
\* stores a new refresh token without answering 200 with that token.
C22_RefreshDeliversWhatItStores ==
    [][resp'.op = "refresh" =>
         /\ verify_refresh_token(resp'.req.refresh_token) # 0 =>
               /\ resp'.status = 200
               /\ {"access_token", "refresh_token", "token_type", "user"}
                     \subseteq DOMAIN resp'.body
         /\ refresh_tokens' # refresh_tokens =>
               /\ resp'.status = 200
               /\ resp'.body.refresh_token
                     = refresh_tokens'[Len(refresh_tokens')].token]_vars

----------------------------------------------------------------------------
(* Properties of deleting a category *)

\* C23: a delete_category by the owner of a category that has a transaction
\* is answered 400 and changes no category and no transaction, and every
\* transaction with a category_id refers to a stored category.
C23_DeleteKeepsReferencedCategory ==
    /\ [](\A t \in transactions :
            t.category_id # Null => \E c \in categories : c.id = t.category_id)
    /\ [][(/\ resp'.op = "delete_category"
           /\ resp'.user # 0
           /\ \E c \in categories : c.id = resp'.req.id /\ c.user_id = resp'.user
           /\ \E t \in transactions : t.category_id = resp'.req.id)
          => (/\ resp'.status = 400
              /\ categories' = categories
              /\ transactions' = transactions)]_vars

\* The owner's delete of a category that a transaction refers to has been
\* refused
C23_Witness ==
    /\ resp.op = "delete_category"
    /\ resp.status = 400
    /\ \E t \in transactions : t.category_id = resp.req.id
    /\ \E c \in categories : c.id = resp.req.id /\ c.user_id = resp.user

----------------------------------------------------------------------------
(* Properties of changing the password *)

\* C24: change_password answers 200 only when the current password supplied
\* verifies against the stored hash and the new one has PASSWORD_MIN_LENGTH
\* characters; right after, a login by the user's username or email is
\* accepted with the new password and refused with the old one; a request
\* answered 400 leaves the stored hashes as they were.
C24_ChangePasswordSwitchesLogin ==
    [][resp'.op = "change_password" =>
         LET u == resp'.user
             data == resp'.req.data
         IN
         /\ resp'.status = 200 =>
               /\ verify_password(data.current_password, users[u].hashed_password)
               /\ Len(data.new_password) >= PASSWORD_MIN_LENGTH
               /\ \A identifier \in {users[u].username, users[u].email} :
                     \A m \in {i \in DOMAIN users' :
                                  \/ users'[i].username = identifier
                                  \/ users'[i].email = identifier} :
                        /\ verify_password(data.new_password, users'[m].hashed_password)
                        /\ ~verify_password(data.current_password,
                                            users'[m].hashed_password)
         /\ resp'.status = 400 => users' = users]_vars

----------------------------------------------------------------------------
(* Properties of the monthly budget overview *)

\* C25: the total_spent of a monthly overview is at most the sum of the
\* caller's EXPENSE transactions dated in that month.
C25_TotalSpentWithinExpenses ==
    (resp.op = "get_monthly_budget_overview" /\ resp.status = 200) =>
        resp.body.total_spent
           <= SumAmounts({t \in transactions :
                             /\ t.user_id = resp.user
                             /\ t.transaction_type = "EXPENSE"
                             /\ InMonth(t.transaction_date, resp.req.year, resp.req.month)})

\* C26: in a monthly overview every entry has is_over_budget exactly when
\* spent > budgeted and is_near_limit exactly when percentage_used >=
\* alert_threshold; an over-budget entry with alert_threshold at most 100 is
\* near its limit; total_remaining is total_budgeted - total_spent.
C26_OverviewFlags ==
    (resp.op = "get_monthly_budget_overview" /\ resp.status = 200) =>
        /\ \A e \in resp.body.budgets :
              /\ e.is_over_budget <=> e.spent > e.budgeted
              /\ e.is_near_limit <=> e.percentage_used >= e.alert_threshold * 100
              /\ (e.is_over_budget /\ e.alert_threshold <= 100) => e.is_near_limit
        /\ resp.body.total_remaining = resp.body.total_budgeted - resp.body.total_spent

\* An overview has listed a budget that is over its amount and a budget
\* that is under its alert threshold
C26_Witness ==
    /\ resp.op = "get_monthly_budget_overview"
    /\ resp.status = 200
    /\ \E e, f \in resp.body.budgets :
          /\ e.is_over_budget /\ e.is_near_limit
          /\ ~f.is_over_budget /\ ~f.is_near_limit /\ f.spent > 0

----------------------------------------------------------------------------
(* Properties of the monthly trend *)

\* C27: the monthly trend for months = n lists the min(n, k) most recent of
\* the k year-months in which the caller has a transaction, oldest first,
\* each with the sums of the caller's INCOME and EXPENSE amounts of that
\* year-month, and no other month.
C27_TrendShowsLatestMonths ==
    (resp.op \in {"get_dashboard", "monthly_trend"} /\ resp.status = 200) =>
        LET trend == IF resp.op = "get_dashboard"
                     THEN resp.body.monthly_trend ELSE resp.body.data
            mine == {t \in transactions : t.user_id = resp.user}
            year_months == {t.transaction_date \div 100 : t \in mine}
            latest == {ym \in year_months :
                          Cardinality({o \in year_months : o > ym}) < resp.req.months}
            of(ym) == {t \in mine : t.transaction_date \div 100 = ym}
        IN
        /\ Len(trend) = Cardinality(latest)
        /\ \A i \in DOMAIN trend :
              \E ym \in latest :
                 /\ Cardinality({o \in latest : o < ym}) = i - 1
                 /\ trend[i].month = month_key(ym * 100 + 1)
                 /\ trend[i].income
                       = SumAmounts({t \in of(ym) : t.transaction_type = "INCOME"})
                 /\ trend[i].expense
                       = SumAmounts({t \in of(ym) : t.transaction_type = "EXPENSE"})

----------------------------------------------------------------------------
(* Properties of listing transactions *)

\* The caller's transactions that match the filters of a request
Matching(user, filters) ==
    {t \in transactions :
        /\ t.user_id = user
        /\ filters.transaction_type # None => t.transaction_type = filters.transaction_type
        /\ filters.category_id # Null => t.category_id = filters.category_id
        /\ filters.start_date # Null => t.transaction_date >= filters.start_date
        /\ filters.end_date # Null => t.transaction_date <= filters.end_date}

\* C28: a list_transactions answer has total_count equal to the number of
\* the caller's transactions matching the filters and at most page_size of
\* them, in descending order of date; when their dates are pairwise
\* distinct, the pages 1..ceil(total_count / page_size) taken on the same
\* state hold every matching transaction exactly once.
C28_PagesCoverMatching ==
    (resp.op = "list_transactions" /\ resp.status = 200) =>
        LET filters == resp.req.filters
            matching == Matching(resp.user, filters)
            items == resp.body.items
            pages == (Cardinality(matching) + filters.page_size - 1) \div filters.page_size
        IN
        /\ resp.body.total_count = Cardinality(matching)
        /\ Len(items) <= filters.page_size
        /\ \A i \in DOMAIN items : \E t \in matching : t.id = items[i].id
        /\ \A i, j \in DOMAIN items :
              i < j => items[i].transaction_date >= items[j].transaction_date
        /\ (\A a, b \in matching : a.transaction_date = b.transaction_date => a = b) =>
              \A listed \in [1..pages -> UNION {TransactionPages(matching, p, filters.page_size) :
                                                   p \in 1..pages}] :
                 (\A p \in 1..pages :
                     listed[p] \in TransactionPages(matching, p, filters.page_size)) =>
                    \A t \in matching :
                       Cardinality({<<p, i>> \in (1..pages) \X (1..filters.page_size) :
                                       i <= Len(listed[p]) /\ listed[p][i] = t}) = 1

\* C29: the total_income and total_expense of a list_transactions answer
\* are the sums over all the caller's INCOME and EXPENSE transactions,
\* whatever the filters and the page, while total_count is the number of
\* the caller's transactions that match the filters.
C29_TotalsIgnoreFilters ==
    (resp.op = "list_transactions" /\ resp.status = 200) =>
        LET mine == {t \in transactions : t.user_id = resp.user} IN
        /\ resp.body.total_income
              = SumAmounts({t \in mine : t.transaction_type = "INCOME"})
        /\ resp.body.total_expense
              = SumAmounts({t \in mine : t.transaction_type = "EXPENSE"})
        /\ resp.body.total_count = Cardinality(Matching(resp.user, resp.req.filters))

----------------------------------------------------------------------------
(* Properties of the user settings *)

\* C30: no user has two rows of user_settings, whatever the interleaving of
\* register, get_settings and update_settings requests; when a register
\* request is answered 201 the new user has exactly one row, holding the
\* default values; and a user's row is never removed.
C30_OneSettingsRowPerUser ==
    /\ [](\A i, j \in DOMAIN user_settings :
            user_settings[i].user_id = user_settings[j].user_id => i = j)
    /\ [][(resp'.op = "register" /\ resp'.status = 201) =>
            \E i \in DOMAIN user_settings' :
               /\ user_settings'[i] = DefaultSettings(resp'.body.id)
               /\ \A j \in DOMAIN user_settings' :
                     user_settings'[j].user_id = resp'.body.id => j = i]_vars
    /\ [][\A i \in DOMAIN user_settings :
            \E j \in DOMAIN user_settings' :
               user_settings'[j].user_id = user_settings[i].user_id]_vars

\* A settings request of a user that found no row has lost the race for the
\* user's one row and was answered 500
C30_Witness ==
    /\ resp.op \in {"get_settings", "update_settings"}
    /\ resp.status = 500
    /\ \E i \in DOMAIN user_settings : user_settings[i].user_id = resp.user

====
